---- MODULE Spec2Model ----
(***************************************************************************)
(* A model of the Paisley digest pipeline: MailHandler (start,             *)
(* sendMailWithRetry, sendMail, isSafePath, isValidEmail, transformPosts,  *)
(* sortAndSlicePost, fetchProp, safeEvaluate).                             *)
(*                                                                         *)
(* JavaScript strings are sequences of one-character strings, so that the  *)
(* regular expressions and path functions of the code are computed, not    *)
(* assumed.  Error messages are sequences of string fragments, built the   *)
(* way the code's template literals build them.                            *)
(***************************************************************************)
EXTENDS Integers, Sequences, FiniteSets, TLC

(***************************************************************************)
(* Bounds of the model.                                                    *)
(***************************************************************************)
\* longest directory listing readdirSync returns
MaxFiles == 3
\* largest maxRetries a direct caller of sendMailWithRetry passes
MaxAttempts == 4
\* longest filePath handed to isSafePath
MaxPathLen == 4

(***************************************************************************)
(* Strings.                                                                *)
(***************************************************************************)
\* The value of a missing property or argument.
Undefined == <<"undefined">>

Digits == {"0", "1", "2", "3", "4", "5", "6", "7", "8", "9"}

\* \s of the regular expressions, over the characters the model uses
Whitespace == {" "}

DigitChar(d) ==
    CASE d = 0 -> "0" [] d = 1 -> "1" [] d = 2 -> "2" [] d = 3 -> "3"
      [] d = 4 -> "4" [] d = 5 -> "5" [] d = 6 -> "6" [] d = 7 -> "7"
      [] d = 8 -> "8" [] OTHER -> "9"

RECURSIVE NatStr(_)
NatStr(n) ==
    IF n < 10 THEN <<DigitChar(n)>>
    ELSE NatStr(n \div 10) \o <<DigitChar(n % 10)>>

\* `${n}` of an integer
NumStr(n) ==
    IF n < 0 THEN <<"-">> \o NatStr(0 - n) ELSE NatStr(n)

\* String.prototype.startsWith
StartsWith(s, p) ==
    /\ Len(p) <= Len(s)
    /\ SubSeq(s, 1, Len(p)) = p

\* String.prototype.includes
Includes(s, p) ==
    \E i \in 1..(Len(s) + 1) :
        /\ i + Len(p) - 1 <= Len(s)
        /\ SubSeq(s, i, i + Len(p) - 1) = p

\* String.prototype.trim
RECURSIVE TrimLeft(_)
TrimLeft(s) ==
    IF s # <<>> /\ Head(s) \in Whitespace THEN TrimLeft(Tail(s)) ELSE s

RECURSIVE TrimRight(_)
TrimRight(s) ==
    IF s # <<>> /\ s[Len(s)] \in Whitespace
    THEN TrimRight(SubSeq(s, 1, Len(s) - 1))
    ELSE s

Trim(s) == TrimRight(TrimLeft(s))

\* every character of s is outside the class bad
NoneIn(s, bad) == \A k \in 1..Len(s) : s[k] \notin bad

(***************************************************************************)
(* MailHandler: the constructor's emailRegex, isValidEmail.                *)
(***************************************************************************)
MailTok == <<"-", "m", "a", "i", "l", "-">>
YamlTok == <<".", "y", "a", "m", "l">>

\* The places i where /(.+)-mail-[0-9]+\.yaml$/ can put "-mail-": one or more
\* characters before it, then one or more digits, then ".yaml" at the end.
EmailRegexSplits(s) ==
    { i \in 2..Len(s) :
        /\ i + 5 <= Len(s)
        /\ SubSeq(s, i, i + 5) = MailTok
        /\ Len(s) - 4 > i + 6
        /\ SubSeq(s, Len(s) - 4, Len(s)) = YamlTok
        /\ \A k \in (i + 6)..(Len(s) - 5) : s[k] \in Digits }

\* this.emailRegex.test(file)
EmailRegexTest(s) == EmailRegexSplits(s) # {}

\* match[1] of file.match(this.emailRegex): (.+) is greedy
EmailRegexCapture(s) ==
    LET i == CHOOSE j \in EmailRegexSplits(s) :
                \A k \in EmailRegexSplits(s) : k <= j
    IN  SubSeq(s, 1, i - 1)

\* /^[^\s@]+@[^\s@]+\.[^\s@]+$/.test(s)
ShapeRegexTest(s) ==
    \E a \in 2..Len(s) : \E d \in (a + 2)..(Len(s) - 1) :
        /\ s[a] = "@"
        /\ s[d] = "."
        /\ NoneIn(SubSeq(s, 1, a - 1), Whitespace \cup {"@"})
        /\ NoneIn(SubSeq(s, a + 1, Len(s)), Whitespace \cup {"@"})

isValidEmail(email) ==
    IF email = Undefined \/ email = <<>> THEN FALSE
    ELSE ShapeRegexTest(Trim(email))

(***************************************************************************)
(* path.resolve and path.basename (POSIX), and MailHandler.isSafePath.     *)
(***************************************************************************)
\* process.cwd()
Cwd == <<"/", "w">>

IsAbsolute(p) == p # <<>> /\ Head(p) = "/"

\* the segments of p between its "/" characters
RECURSIVE SplitPath(_, _, _)
SplitPath(p, cur, acc) ==
    IF p = <<>> THEN Append(acc, cur)
    ELSE IF Head(p) = "/" THEN SplitPath(Tail(p), <<>>, Append(acc, cur))
    ELSE SplitPath(Tail(p), Append(cur, Head(p)), acc)

\* normalizeString of an absolute path: "" and "." are dropped, ".." pops
RECURSIVE NormalizeSegs(_, _)
NormalizeSegs(segs, acc) ==
    IF segs = <<>> THEN acc
    ELSE IF Head(segs) = <<>> \/ Head(segs) = <<".">>
         THEN NormalizeSegs(Tail(segs), acc)
    ELSE IF Head(segs) = <<".", ".">>
         THEN NormalizeSegs(Tail(segs),
                            IF acc = <<>> THEN acc
                            ELSE SubSeq(acc, 1, Len(acc) - 1))
    ELSE NormalizeSegs(Tail(segs), Append(acc, Head(segs)))

\* the normalized segments of an absolute path
AbsSegs(p) == NormalizeSegs(SplitPath(p, <<>>, <<>>), <<>>)

RECURSIVE JoinSegs(_)
JoinSegs(segs) ==
    IF segs = <<>> THEN <<>>
    ELSE <<"/">> \o Head(segs) \o JoinSegs(Tail(segs))

\* the text of an absolute path from its segments; the root is "/"
AbsText(segs) == IF segs = <<>> THEN <<"/">> ELSE JoinSegs(segs)

\* path.resolve(from, to): the rightmost absolute argument and what follows it
ResolveFrom(from) ==
    IF IsAbsolute(from) THEN from
    ELSE IF from = <<>> THEN Cwd
    ELSE Cwd \o <<"/">> \o from

PathResolveSegs(from, to) ==
    IF IsAbsolute(to) THEN AbsSegs(to)
    ELSE IF to = <<>> THEN AbsSegs(ResolveFrom(from))
    ELSE AbsSegs(ResolveFrom(from) \o <<"/">> \o to)

PathResolve(from, to) == AbsText(PathResolveSegs(from, to))

\* path.basename(p)
Basename(p) ==
    LET segs == SplitPath(p, <<>>, <<>>)
        kept == SelectSeq(segs, LAMBDA x : x # <<>>)
    IN  IF kept = <<>> THEN <<>> ELSE kept[Len(kept)]

\* whether the directory with segments dir contains (or is) the path with
\* segments segs
SegsInside(segs, dir) ==
    /\ Len(dir) <= Len(segs)
    /\ SubSeq(segs, 1, Len(dir)) = dir

\* MailHandler.isSafePath(filePath), with this.dataDir = dir
isSafePath(dir, filePath) ==
    IF filePath = Undefined \/ filePath = <<>> THEN FALSE
    ELSE IF Includes(filePath, <<".", ".">>) THEN FALSE
    ELSE StartsWith(PathResolve(dir, filePath), PathResolve(dir, <<>>))

(***************************************************************************)
(* Error messages, as the code's template literals build them.             *)
(***************************************************************************)
NoError == <<>>

ErrInvalidRecipient(email) == <<"Invalid recipient email: ">> \o email
ErrInvalidSender(from) == <<"Invalid sender email: ">> \o from
ErrContent == <<"Email content is required and must be a string">>
ErrSubject == <<"Email subject is required and must be a string">>
ErrSmtp(e) == <<"SMTP error: ", e>>
ErrFailedAfter(n, last) ==
    <<"Failed to send email after ">> \o NumStr(n) \o <<" attempts: ">> \o last
\* reading lastError.message when lastError is undefined
ErrTypeUndefined ==
    <<"Cannot read properties of undefined (reading 'message')">>
ErrFileFormat(file) ==
    <<"Invalid email file format: ">> \o file
        \o <<". Expected format: email-mail-N.yaml">>
ErrExtractedEmail(email) ==
    <<"Invalid email address extracted from filename: ">> \o email
MsgUnsafe(file) == <<"Skipping unsafe file path: ">> \o file
MsgInvalidEmail(file, email) ==
    <<"Invalid email address in file ">> \o file \o <<": ">> \o email
MsgFailed(file, msg) == <<"Failed to process ">> \o file \o <<": ">> \o msg

(***************************************************************************)
(* The inputs the model draws from.                                        *)
(***************************************************************************)
\* recipients, valid and not
GoodEmail == <<"a", "@", "b", ".", "c">>
GoodEmail2 == <<"d", "@", "b", ".", "c">>
PaddedEmail == <<" ", "a", "@", "b", ".", "c">>
BadEmail == <<"a", "b">>
DotDotEmail == <<"a", ".", ".", "b", "@", "c", ".", "d">>

\* entries a data directory can hold
FileGood1 == GoodEmail \o MailTok \o <<"0">> \o YamlTok
FileGood2 == GoodEmail2 \o MailTok \o <<"1", "2">> \o YamlTok
FileBadEmail == BadEmail \o MailTok \o <<"2">> \o YamlTok
FileDotDot == DotDotEmail \o MailTok \o <<"3">> \o YamlTok
FileNoDigits == GoodEmail \o MailTok \o YamlTok
FileNoIdentity == MailTok \o <<"0">> \o YamlTok
FileNames ==
    {FileGood1, FileGood2, FileBadEmail, FileDotDot, FileNoDigits,
     FileNoIdentity}

\* the listings readdirSync can return: distinct names
Listings ==
    { l \in UNION { [1..n -> FileNames] : n \in 0..MaxFiles } :
        \A i, j \in 1..Len(l) : i # j => l[i] # l[j] }

\* process.env.MAIL_DATA_DIR, absolute and relative to the working directory
DataDirs == {<<"/", "d">>, <<"d">>}
\* process.env.FROM_EMAIL
FromEmails == {<<"f", "@", "b", ".", "c">>, <<"f", "b">>}

\* the rendered document and the digest's name
GoodMail == <<"<", "p", ">">>
GoodName == <<"D">>
Mails == {GoodMail, <<>>, Undefined}
Names == {GoodName, <<>>, Undefined}

\* what the mail transport calls back with: acceptance or an error message
TransportErrors == {"ECONNREFUSED", "ETIMEDOUT"}
TransportOutcomes == {"ok"} \cup TransportErrors

\* what makes DataHandler.read, transformPosts, ejs or Juice fail
ComposeErrors == {<<"Failed to parse YAML file">>}

\* the mail transport: the tests' mock, which accepts every message, or a relay
\* that may refuse any of them
Transports == {"accepting", "unreliable"}
\* the documents in the data directory: all well-formed (they load, shape and
\* render, and carry a name), or any
Documents == {"wellFormed", "any"}

(***************************************************************************)
(* State.                                                                  *)
(***************************************************************************)
VARIABLES
    \* the MailHandler's configuration
    dataDir, fromEmail,
    \* the environment: the mail transport and the documents on disk
    transport, documents,
    \* the environment: a shutdown signal the process was sent
    shutdownAt,
    \* start(): the directory, the loop and the result being built
    directory, files, idx, spc, count, failedCount, errors, cres, result,
    \* start(): the entries constructMailData was called for
    composed,
    \* sendMailWithRetry: its arguments and locals
    rpc, rEmail, rMail, rName, maxRetries, attempt, lastError, delay, thrown,
    \* sendMailWithRetry: the waits that elapsed, the calls of sendMail, the
    \* transport's answers
    waits, calls, sendLog,
    \* the entries whose message the transport accepted
    accepted,
    \* a call of isSafePath: its argument, its result
    ppc, pPath, pSafe,
    \* a call of sortAndSlicePost or transformPosts: data.mails, the results
    shpc, mails, sliced, shaped,
    \* a call of one of the other functions: its arguments, what it gave
    cpc, cArgs, cRet

configVars == <<dataDir, fromEmail, transport, documents, shutdownAt>>
pathVars == <<ppc, pPath, pSafe>>
shapeVars == <<shpc, mails, sliced, shaped>>
callVars == <<cpc, cArgs, cRet>>
pureVars == <<pathVars, shapeVars, callVars>>
startVars ==
    <<directory, files, idx, spc, count, failedCount, errors, cres, result,
      composed>>
retryVars ==
    <<rpc, rEmail, rMail, rName, maxRetries, attempt, lastError, delay,
      thrown, waits, calls, sendLog>>
vars == <<configVars, startVars, retryVars, accepted, pureVars>>

\* no shutdown signal has arrived
NoSignal == [arrived |-> FALSE, waiting |-> FALSE, calls |-> 0]

\* a directory that does not exist
NoDirectory == <<<<"ENOENT">>>>
\* no promise settled yet
Pending == [state |-> "pending", error |-> NoError, mail |-> <<>>,
            email |-> <<>>, name |-> <<>>]
NoResult == [success |-> 0 - 1, failed |-> 0 - 1, errors |-> <<>>]

RECURSIVE Pow2(_)
Pow2(n) == IF n <= 0 THEN 1 ELSE 2 * Pow2(n - 1)

(***************************************************************************)
(* sendMail and sendMailWithRetry.                                         *)
(***************************************************************************)
\* a non-empty string
IsText(s) == s # Undefined /\ s # <<>>

\* sendMail's validation: the error it throws, or NoError
SendMailValidation(email, mail, name) ==
    IF ~isValidEmail(email) THEN ErrInvalidRecipient(email)
    ELSE IF ~isValidEmail(fromEmail) THEN ErrInvalidSender(fromEmail)
    ELSE IF ~IsText(mail) THEN ErrContent
    ELSE IF ~IsText(name) THEN ErrSubject
    ELSE NoError

\* the backoff counted from a first attempt numbered 0
BackoffDelayZeroBased(k) == Pow2(k - 1) * 1000

\* the delay before the attempt after attempt k, in milliseconds
BackoffDelay(k) == Pow2(k) * 1000

\* what follows the for loop: the throw of sendMailWithRetry
ThrowAfterLoop(n, last) ==
    IF last = Undefined THEN ErrTypeUndefined ELSE ErrFailedAfter(n, last)

RetryIdle ==
    /\ rpc' = "idle"
    /\ rEmail' = <<>>
    /\ rMail' = <<>>
    /\ rName' = <<>>
    /\ maxRetries' = 0
    /\ attempt' = 0
    /\ lastError' = Undefined
    /\ delay' = 0
    /\ thrown' = NoError
    /\ waits' = <<>>
    /\ calls' = 0
    /\ sendLog' = <<>>

\* sendMailWithRetry(email, mail, name, n) up to its first await
CallSendMailWithRetry(email, mail, name, n) ==
    /\ rEmail' = email
    /\ rMail' = mail
    /\ rName' = name
    /\ maxRetries' = n
    /\ attempt' = 1
    /\ lastError' = Undefined
    /\ delay' = 0
    /\ waits' = <<>>
    /\ calls' = 0
    /\ sendLog' = <<>>
    /\ IF 1 <= n
       THEN rpc' = "attempt" /\ thrown' = NoError
       ELSE rpc' = "threw" /\ thrown' = ThrowAfterLoop(n, Undefined)

\* the catch block of a loop that runs one pass short
RetryCatchOnePassShort(error) ==
    /\ lastError' = error
    /\ IF attempt + 1 < maxRetries
       THEN /\ rpc' = "waiting"
            /\ delay' = BackoffDelay(attempt)
            /\ UNCHANGED <<attempt, thrown>>
       ELSE /\ rpc' = "threw"
            /\ attempt' = attempt + 1
            /\ thrown' = ThrowAfterLoop(maxRetries, error)
            /\ UNCHANGED delay

\* the catch block of the retry loop, and the loop's next test
RetryCatch(error) ==
    /\ lastError' = error
    /\ IF attempt < maxRetries
       THEN /\ rpc' = "waiting"
            /\ delay' = BackoffDelay(attempt)
            /\ UNCHANGED <<attempt, thrown>>
       ELSE /\ rpc' = "threw"
            /\ attempt' = attempt + 1
            /\ thrown' = ThrowAfterLoop(maxRetries, error)
            /\ UNCHANGED delay

\* the try block without its return: the loop goes on after an accepted
\* attempt
SendMailResolvedNoReturn ==
    /\ accepted' = Append(accepted, idx)
    /\ attempt' = attempt + 1
    /\ IF attempt < maxRetries
       THEN rpc' = "attempt" /\ UNCHANGED thrown
       ELSE /\ rpc' = "threw"
            /\ thrown' = ThrowAfterLoop(maxRetries, lastError)
    /\ UNCHANGED <<lastError, delay>>

\* await this.sendMail(...) resolved: the transport accepted the message, and
\* sendMailWithRetry returns
SendMailResolved ==
    /\ rpc' = "returned"
    /\ accepted' = Append(accepted, idx)
    /\ UNCHANGED <<attempt, lastError, delay, thrown>>

\* what the transport in use can call back with
TransportAnswers ==
    IF transport = "accepting" THEN {"ok"} ELSE TransportOutcomes

\* one pass of the loop body: sendMail is called and settles
SendAttempt ==
    /\ rpc = "attempt"
    /\ calls' = calls + 1
    /\ LET invalid == SendMailValidation(rEmail, rMail, rName)
       IN  IF invalid # NoError
           THEN /\ RetryCatch(invalid)
                /\ UNCHANGED <<sendLog, accepted>>
           ELSE \E out \in TransportAnswers :
                    /\ sendLog' = Append(sendLog, out)
                    /\ IF out = "ok"
                       THEN SendMailResolved
                       ELSE /\ RetryCatch(ErrSmtp(out))
                            /\ UNCHANGED accepted
    /\ UNCHANGED <<rEmail, rMail, rName, maxRetries, waits>>
    /\ UNCHANGED <<configVars, pureVars, startVars>>

\* the setTimeout of the backoff fires: the loop goes on
TimerFires ==
    /\ rpc = "waiting"
    /\ waits' = Append(waits, delay)
    /\ delay' = 0
    /\ attempt' = attempt + 1
    /\ rpc' = "attempt"
    /\ UNCHANGED <<rEmail, rMail, rName, maxRetries, lastError, thrown,
                   calls, sendLog>>
    /\ UNCHANGED <<configVars, pureVars, startVars, accepted>>

\* the process is sent a shutdown signal while sendMailWithRetry runs.  The
\* function keeps no handle on its timer and listens for nothing, so the
\* signal changes none of its state.
ShutdownSignal ==
    /\ rpc \in {"attempt", "waiting"}
    /\ ~shutdownAt.arrived
    /\ shutdownAt' = [arrived |-> TRUE, waiting |-> rpc = "waiting",
                      calls |-> calls]
    /\ UNCHANGED <<dataDir, fromEmail, transport, documents>>
    /\ UNCHANGED <<pureVars, startVars, retryVars, accepted>>

\* a caller other than start() calls sendMailWithRetry
DirectCall ==
    /\ spc = "direct"
    /\ rpc = "idle"
    /\ \E email \in {GoodEmail, PaddedEmail, BadEmail, Undefined},
          mail \in Mails, name \in Names, n \in (0 - 1)..MaxAttempts :
            CallSendMailWithRetry(email, mail, name, n)
    /\ UNCHANGED <<configVars, pureVars, startVars, accepted>>

(***************************************************************************)
(* formMailData, constructMailData and start().                            *)
(***************************************************************************)
\* what formMailData throws before it reads the file, or NoError
FormMailDataCheck(filePath) ==
    IF ~IsText(filePath)
    THEN <<"File path is required and must be a string">>
    ELSE IF ~EmailRegexTest(Basename(filePath)) THEN ErrFileFormat(filePath)
    ELSE IF ~isValidEmail(EmailRegexCapture(Basename(filePath)))
         THEN ErrExtractedEmail(EmailRegexCapture(Basename(filePath)))
    ELSE NoError

Rejected(e) == [Pending EXCEPT !.state = "rejected", !.error = e]
Fulfilled(mail, email, name) ==
    [Pending EXCEPT !.state = "fulfilled", !.mail = mail, !.email = email,
                    !.name = name]

\* the end of one pass of the for loop
NextFile ==
    /\ idx' = idx + 1
    /\ spc' = "loop"
    /\ cres' = Pending

\* the catch block of start() that lets the error escape the loop
CatchAbort(file, error) ==
    /\ errors' = Append(errors, MsgFailed(file, error))
    /\ failedCount' = failedCount + 1
    /\ UNCHANGED count
    /\ idx' = Len(files) + 1
    /\ spc' = "loop"
    /\ cres' = Pending

\* a catch block that records the error and leaves failedCount as it is
CatchUncounted(file, error) ==
    /\ errors' = Append(errors, MsgFailed(file, error))
    /\ UNCHANGED <<count, failedCount>>
    /\ NextFile

\* the catch block of start()
Catch(file, error) ==
    /\ errors' = Append(errors, MsgFailed(file, error))
    /\ failedCount' = failedCount + 1
    /\ UNCHANGED count
    /\ NextFile

\* the filter at the head of the loop that lets every entry through
IsCandidateAll(file) == TRUE

\* the filter at the head of the loop: this.emailRegex.test(file)
IsCandidate(file) == EmailRegexTest(file)

\* readdirSync(this.dataDir), or mkdirSync when it throws
ReadDir ==
    /\ spc = "init"
    /\ files' = IF directory = NoDirectory THEN <<>> ELSE directory
    /\ directory' = IF directory = NoDirectory THEN <<>> ELSE directory
    /\ spc' = "loop"
    /\ UNCHANGED <<idx, count, failedCount, errors, cres, result, composed>>
    /\ UNCHANGED <<configVars, pureVars, retryVars, accepted>>

\* the head of one pass of the loop, up to the call of constructMailData
LoopStep ==
    /\ spc = "loop"
    /\ idx <= Len(files)
    /\ LET file == files[idx]
       IN  IF ~IsCandidate(file)
           THEN /\ NextFile
                /\ UNCHANGED <<errors, composed>>
           ELSE IF ~isSafePath(dataDir, file)
           THEN /\ errors' = Append(errors, MsgUnsafe(file))
                /\ NextFile
                /\ UNCHANGED composed
           ELSE /\ composed' = composed \cup {idx}
                /\ spc' = "composing"
                /\ UNCHANGED <<idx, errors, cres>>
    /\ UNCHANGED <<directory, files, count, failedCount, result>>
    /\ UNCHANGED <<configVars, pureVars, retryVars, accepted>>

\* how the read, the shaping and the rendering of a document can end
ComposeOutcomes ==
    IF documents = "wellFormed"
    THEN {<<<<GoodMail, GoodName>>, "return">>}
    ELSE (ComposeErrors \X {"throw"}) \cup ((Mails \X Names) \X {"return"})

\* constructMailData(filePath) settles: formMailData's checks, then the read,
\* the shaping and the rendering, which fail or give the mail and its name
ComposeSettles ==
    /\ spc = "composing"
    /\ LET filePath == dataDir \o <<"/">> \o files[idx]
           early == FormMailDataCheck(filePath)
       IN  IF early # NoError
           THEN cres' = Rejected(early)
           ELSE \E out \in ComposeOutcomes :
                    cres' = IF out[2] = "throw"
                            THEN Rejected(out[1])
                            ELSE Fulfilled(out[1][1],
                                           EmailRegexCapture(
                                               Basename(filePath)),
                                           out[1][2])
    /\ spc' = "composed"
    /\ UNCHANGED <<directory, files, idx, count, failedCount, errors, result,
                   composed>>
    /\ UNCHANGED <<configVars, pureVars, retryVars, accepted>>

\* the try block after constructMailData: the catch, the second email check,
\* or the call of sendMailWithRetry(data.email, data.mail, data.name, 3)
AfterCompose ==
    /\ spc = "composed"
    /\ IF cres.state = "rejected"
       THEN /\ Catch(files[idx], cres.error)
            /\ UNCHANGED retryVars
       ELSE IF ~isValidEmail(cres.email)
       THEN /\ errors' =
                   Append(errors, MsgInvalidEmail(files[idx], cres.email))
            /\ failedCount' = failedCount + 1
            /\ NextFile
            /\ UNCHANGED <<count, retryVars>>
       ELSE /\ CallSendMailWithRetry(cres.email, cres.mail, cres.name, 3)
            /\ spc' = "sending"
            /\ UNCHANGED <<idx, count, failedCount, errors, cres>>
    /\ UNCHANGED <<directory, files, result, composed>>
    /\ UNCHANGED <<configVars, pureVars, accepted>>

\* sendMailWithRetry returned: count++
SendReturns ==
    /\ spc = "sending"
    /\ rpc = "returned"
    /\ count' = count + 1
    /\ NextFile
    /\ RetryIdle
    /\ UNCHANGED <<directory, files, failedCount, errors, result, composed>>
    /\ UNCHANGED <<configVars, pureVars, accepted>>

\* sendMailWithRetry threw: the catch block
SendThrows ==
    /\ spc = "sending"
    /\ rpc = "threw"
    /\ Catch(files[idx], thrown)
    /\ RetryIdle
    /\ UNCHANGED <<directory, files, result, composed>>
    /\ UNCHANGED <<configVars, pureVars, accepted>>

\* the loop is over: start() returns {success, failed, errors}
Finish ==
    /\ spc = "loop"
    /\ idx > Len(files)
    /\ spc' = "done"
    /\ result' = [success |-> count, failed |-> failedCount,
                  errors |-> errors]
    /\ UNCHANGED <<directory, files, idx, count, failedCount, errors, cres,
                   composed>>
    /\ UNCHANGED <<configVars, pureVars, retryVars, accepted>>

(***************************************************************************)
(* A call of isSafePath from outside start().                              *)
(***************************************************************************)
PathAlphabet == {"/", ".", "d", "x"}

\* the arguments: every string over the alphabet up to the bound, and a value
\* that is not a string
PathInputs ==
    UNION { [1..n -> PathAlphabet] : n \in 0..MaxPathLen } \cup {Undefined}

CallIsSafePath ==
    /\ ppc = "call"
    /\ ppc' = "done"
    /\ pSafe' = isSafePath(dataDir, pPath)
    /\ UNCHANGED pPath
    /\ UNCHANGED <<configVars, startVars, retryVars, accepted, shapeVars,
                   callVars>>

(***************************************************************************)
(* JavaScript numbers and values.  A number is a rational or NaN: the      *)
(* division of safeEvaluate leaves the integers.                           *)
(***************************************************************************)
RECURSIVE Gcd(_, _)
Gcd(a, b) == IF b = 0 THEN a ELSE Gcd(b, a % b)

Abs(x) == IF x < 0 THEN 0 - x ELSE x

\* the number n / d, d # 0, in lowest terms
Rat(n, d) ==
    LET g == Gcd(Abs(n), Abs(d))
        sgn == IF d < 0 THEN 0 - 1 ELSE 1
    IN  [nan |-> FALSE, n |-> (sgn * n) \div g, d |-> (sgn * d) \div g]

JsNum(n) == [nan |-> FALSE, n |-> n, d |-> 1]
NaN == [nan |-> TRUE, n |-> 0, d |-> 1]

NumAdd(x, y) ==
    IF x.nan \/ y.nan THEN NaN ELSE Rat(x.n * y.d + y.n * x.d, x.d * y.d)
NumSub(x, y) ==
    IF x.nan \/ y.nan THEN NaN ELSE Rat(x.n * y.d - y.n * x.d, x.d * y.d)
NumMul(x, y) ==
    IF x.nan \/ y.nan THEN NaN ELSE Rat(x.n * y.n, x.d * y.d)
\* x / y for y # 0
NumDiv(x, y) ==
    IF x.nan \/ y.nan THEN NaN ELSE Rat(x.n * y.d, x.d * y.n)
NumIsZero(x) == ~x.nan /\ x.n = 0
NumPos(x) == ~x.nan /\ x.n > 0
\* x <= y, false when either is NaN
NumLeq(x, y) == ~x.nan /\ ~y.nan /\ x.n * y.d <= y.n * x.d

\* the values of a post's properties: an integer, a string, or undefined
VInt(n) == [t |-> "number", n |-> n, str |-> <<>>]
VStr(chars) == [t |-> "string", n |-> 0, str |-> chars]
VUndef == [t |-> "undefined", n |-> 0, str |-> <<>>]

\* the value of a string of decimal digits
RECURSIVE DigitsValue(_, _)
DigitsValue(chars, acc) ==
    IF chars = <<>> THEN acc
    ELSE DigitsValue(Tail(chars),
                     10 * acc + (CHOOSE d \in 0..9 : DigitChar(d) = Head(chars)))

AllDigits(chars) == chars # <<>> /\ \A k \in 1..Len(chars) : chars[k] \in Digits

\* Number(string) of the trimmed string t: blank, a decimal integer, or no
\* number
TrimmedToNumber(t) ==
    IF t = <<>> THEN JsNum(0)
    ELSE IF AllDigits(t) THEN JsNum(DigitsValue(t, 0))
    ELSE IF Head(t) = "-" /\ AllDigits(Tail(t))
         THEN JsNum(0 - DigitsValue(Tail(t), 0))
    ELSE IF Head(t) = "+" /\ AllDigits(Tail(t))
         THEN JsNum(DigitsValue(Tail(t), 0))
    ELSE NaN

StringToNumber(chars) == TrimmedToNumber(Trim(chars))

\* Number(v)
ToNumber(v) ==
    IF v.t = "number" THEN JsNum(v.n)
    ELSE IF v.t = "string" THEN StringToNumber(v.str)
    ELSE NaN

\* !!x of a number
NumTruthy(x) == ~x.nan /\ x.n # 0

\* !!v
Truthy(v) ==
    IF v.t = "number" THEN v.n # 0
    ELSE IF v.t = "string" THEN v.str # <<>>
    ELSE FALSE

\* String(v), for integers, strings and undefined
ToStringValue(v) ==
    IF v.t = "number" THEN NumStr(v.n)
    ELSE IF v.t = "string" THEN v.str
    ELSE <<"u", "n", "d", "e", "f", "i", "n", "e", "d">>

(***************************************************************************)
(* Posts and configs.                                                      *)
(***************************************************************************)

\* data[prop]
GetProp(data, prop) == IF prop \in DOMAIN data THEN data[prop] ELSE VUndef

Post(points, rank, lastWeek, isNew) ==
    [points |-> points, rank |-> rank, isNew |-> isNew]
        @@ ("last-week" :> lastWeek)

\* config.sort: absent, a property name, an array of strings, or a number
SortAbsent == [t |-> "absent", name |-> "", arr |-> <<>>]
SortName(name) == [t |-> "string", name |-> name, arr |-> <<>>]
SortArray(arr) == [t |-> "array", name |-> "", arr |-> arr]
SortNumber == [t |-> "number", name |-> "", arr |-> <<>>]

\* config.count: absent, or an integer
CountAbsent == [set |-> FALSE, n |-> 0]
CountOf(n) == [set |-> TRUE, n |-> n]

\* config.structure: absent, null, or a mapping, its entries in key order
StructAbsent == [t |-> "absent", entries |-> <<>>]
StructNull == [t |-> "null", entries |-> <<>>]
StructMap(entries) == [t |-> "mapping", entries |-> entries]

\* a config; property and value are "" and <<>> when absent
Config(srt, asc, cnt, prop, val, struct) ==
    [sort |-> srt, ascending |-> asc, count |-> cnt, property |-> prop,
     value |-> val, structure |-> struct]

(***************************************************************************)
(* new RegExp(value).test(text), for a value that is literal characters    *)
(* with an optional leading ^ and trailing $.                              *)
(***************************************************************************)
\* whether the literal lit occurs in text, at the start and up to the end when
\* anchored so
LiteralTest(lit, atStart, atEnd, text) ==
    \E i \in 1..(Len(text) + 1) :
        /\ i + Len(lit) - 1 <= Len(text)
        /\ SubSeq(text, i, i + Len(lit) - 1) = lit
        /\ atStart => i = 1
        /\ atEnd => i + Len(lit) - 1 = Len(text)

\* the source without its leading ^
AfterCaret(value) ==
    IF value # <<>> /\ Head(value) = "^" THEN Tail(value) ELSE value

EndsWithDollar(rest) == rest # <<>> /\ rest[Len(rest)] = "$"

BeforeDollar(rest) ==
    IF EndsWithDollar(rest) THEN SubSeq(rest, 1, Len(rest) - 1) ELSE rest

RegexTest(value, text) ==
    LiteralTest(BeforeDollar(AfterCaret(value)),
                value # <<>> /\ Head(value) = "^",
                EndsWithDollar(AfterCaret(value)), text)

(***************************************************************************)
(* fetchProp, safeEvaluate, sortAndSlicePost, transformPosts.              *)
(***************************************************************************)
\* the count used when config.count is absent or 0
DefaultCount == 6

\* !Number(result) ? 0 : Number(result)
NumberOrZero(x) == IF ~NumTruthy(x) THEN JsNum(0) ELSE x

\* the value fetchProp reads; isString is typeof prop === 'string'
FetchedValue(found, isString) ==
    IF isString /\ Truthy(found) THEN found ELSE VInt(0)

\* fetchProp(data, prop).  The values of the posts are integers and strings,
\* so the result is an integer.
fetchProp(data, isString, prop) ==
    NumberOrZero(ToNumber(FetchedValue(GetProp(data, prop), isString)))

AllowedOperators == {"+", "-", "*", "/"}

ErrInvalidOperator(op) ==
    <<"Invalid operator: ", op, ". Allowed operators: +, -, *, /">>

\* the switch of safeEvaluate
Arithmetic(num1, operator, num2) ==
    CASE operator = "+" -> NumAdd(num1, num2)
      [] operator = "-" -> NumSub(num1, num2)
      [] operator = "*" -> NumMul(num1, num2)
      [] operator = "/" -> IF ~NumIsZero(num2) THEN NumDiv(num1, num2)
                           ELSE JsNum(0)
      [] OTHER -> JsNum(0)

\* safeEvaluate without the test against the whitelist
safeEvaluateUnchecked(operand1, operator, operand2) ==
    [threw |-> FALSE, error |-> NoError,
     value |-> Arithmetic(NumberOrZero(ToNumber(operand1)), operator,
                          NumberOrZero(ToNumber(operand2)))]

\* safeEvaluate(operand1, operator, operand2): what it throws, or its value
safeEvaluate(operand1, operator, operand2) ==
    IF operator \notin AllowedOperators
    THEN [threw |-> TRUE, error |-> ErrInvalidOperator(operator),
          value |-> JsNum(0)]
    ELSE [threw |-> FALSE, error |-> NoError,
          value |-> Arithmetic(NumberOrZero(ToNumber(operand1)), operator,
                               NumberOrZero(ToNumber(operand2)))]

\* config.sort taken as it is, absent or not
SortOfNoDefault(config) == config.sort

\* const sort = config.sort ? config.sort : 'points'
SortOf(config) ==
    IF config.sort.t = "absent" THEN SortName("points") ELSE config.sort

\* whether the comparator takes the branch of the three-element array
IsDerived(srt) == srt.t = "array" /\ Len(srt.arr) = 3

\* the value the comparator gives post a (its a or z before the subtraction)
SortKey(srt, a) ==
    IF IsDerived(srt)
    THEN safeEvaluate(VInt(fetchProp(a, TRUE, srt.arr[1]).n), srt.arr[2],
                      VInt(fetchProp(a, TRUE, srt.arr[3]).n)).value
    ELSE fetchProp(a, srt.t = "string", srt.name)

\* ascending ? a - z : z - a
Directed(ascending, a, z) ==
    IF ascending THEN NumSub(a, z) ELSE NumSub(z, a)

\* the comparator of sortAndSlicePost
Comparator(srt, ascending, a, z) ==
    Directed(ascending, SortKey(srt, a), SortKey(srt, z))

\* whether the comparator throws: safeEvaluate refuses the operator
ComparatorThrows(srt) ==
    IsDerived(srt) /\ srt.arr[2] \notin AllowedOperators

\* Array.prototype.sort is stable: x goes after every element that does not
\* compare greater than it
RECURSIVE InsertSorted(_, _, _, _)
InsertSorted(arr, x, srt, ascending) ==
    IF arr = <<>> THEN <<x>>
    ELSE IF ~NumPos(Comparator(srt, ascending, arr[Len(arr)], x))
         THEN Append(arr, x)
    ELSE Append(InsertSorted(SubSeq(arr, 1, Len(arr) - 1), x, srt, ascending),
                arr[Len(arr)])

RECURSIVE SortPosts(_, _, _)
SortPosts(arr, srt, ascending) ==
    IF arr = <<>> THEN <<>>
    ELSE InsertSorted(SortPosts(SubSeq(arr, 1, Len(arr) - 1), srt, ascending),
                      arr[Len(arr)], srt, ascending)

\* the stop of a slice that takes the element at n as well
SliceStopInclusive(len, n) ==
    IF n < 0 THEN (IF len + n < 0 THEN 0 ELSE len + n)
    ELSE IF n + 1 > len THEN len ELSE n + 1

\* the index slice(0, n) stops at, for an array of length len
SliceStop(len, n) ==
    IF n < 0 THEN (IF len + n < 0 THEN 0 ELSE len + n)
    ELSE IF n > len THEN len ELSE n

\* Array.prototype.slice(0, n) of an integer n
SliceTo(arr, n) == SubSeq(arr, 1, SliceStop(Len(arr), n))

\* whether sortAndSlicePost filters: config.property && config.value
HasFilter(config) == config.property # "" /\ config.value # <<>>

\* the test of the filter on one post
FilterKeeps(config, post) ==
    RegexTest(config.value, ToStringValue(GetProp(post, config.property)))

\* posts.posts after the filter: a new array, or the array itself
FilterPosts(arr, config) ==
    IF HasFilter(config)
    THEN SelectSeq(arr, LAMBDA q : FilterKeeps(config, q))
    ELSE arr

\* const count = config.count ? config.count : 6
CountOfConfig(config) ==
    IF config.count.set /\ config.count.n # 0 THEN config.count.n
    ELSE DefaultCount

\* what sortAndSlicePost gives when the comparator throws
SortThrew(arr, config) ==
    [threw |-> TRUE, error |-> ErrInvalidOperator(SortOf(config).arr[2]),
     posts |-> <<>>, config |-> config, array |-> arr]

\* what sortAndSlicePost gives, from the sorted filtered posts
SortReturned(arr, config, sorted) ==
    [threw |-> FALSE, error |-> NoError,
     posts |-> SliceTo(sorted, CountOfConfig(config)), config |-> config,
     array |-> IF HasFilter(config) THEN arr ELSE sorted]

\* .sort(...).slice(0, count) the other way round: the slice, then the sort
SortAndSliceSliceFirst(arr, config, filtered) ==
    IF Len(filtered) >= 2 /\ ComparatorThrows(SortOf(config))
    THEN SortThrew(arr, config)
    ELSE [threw |-> FALSE, error |-> NoError,
          posts |-> SortPosts(SliceTo(filtered, CountOfConfig(config)),
                              SortOf(config), config.ascending),
          config |-> config, array |-> arr]

\* .sort(...).slice(0, count) on the filtered posts.  The comparator runs, and
\* can throw, when there are two posts or more.
SortAndSlice(arr, config, filtered) ==
    IF Len(filtered) >= 2 /\ ComparatorThrows(SortOf(config))
    THEN SortThrew(arr, config)
    ELSE SortReturned(arr, config,
                      SortPosts(filtered, SortOf(config), config.ascending))

\* sortAndSlicePost(posts) for posts = {posts: arr, config}: what it throws,
\* or the posts of the object it returns; and what it leaves in the array arr
\* it was handed, which sort() reorders in place when no filter made a copy
sortAndSlicePost(arr, config) ==
    SortAndSlice(arr, config, FilterPosts(arr, config))

\* the section a pass of the section loop pushes
SectionOf(r) == [posts |-> r.posts, config |-> r.config]

\* sectionArray.push(tempPosts), as unshift
PushSectionFirst(acc, r) == <<SectionOf(r)>> \o acc

\* sectionArray.push(tempPosts)
PushSection(acc, r) == Append(acc, SectionOf(r))

\* for (let key in structure): each pass copies the collection shallowly, so
\* every pass is handed the same array arr, as the pass before left it
RECURSIVE SectionLoop(_, _, _, _)
RECURSIVE SectionPass(_, _, _, _)
SectionPass(r, entries, k, acc) ==
    IF r.threw THEN [threw |-> TRUE, error |-> r.error, sections |-> <<>>]
    ELSE SectionLoop(r.array, entries, k + 1, PushSection(acc, r))

SectionLoop(arr, entries, k, acc) ==
    IF k > Len(entries)
    THEN [threw |-> FALSE, error |-> NoError, sections |-> acc]
    ELSE SectionPass(sortAndSlicePost(arr, entries[k].config), entries, k,
                     acc)

ErrKeysOfNull == <<"Cannot convert undefined or null to object">>

\* an entry of the mails transformPosts returns
Unsectioned(posts, config) ==
    [sectioned |-> FALSE, sections |-> <<>>, posts |-> posts,
     config |-> config]
Sectioned(sections) ==
    [sectioned |-> TRUE, sections |-> sections, posts |-> <<>>,
     config |-> Config(SortAbsent, FALSE, CountAbsent, "", <<>>, StructAbsent)]

\* typeof structure == 'object' && Object.keys(structure).length > 0, of a
\* structure that is not null
HasStructure(structure) ==
    structure.t = "mapping" /\ Len(structure.entries) > 0

SectionedResult(r) ==
    [threw |-> r.threw, error |-> r.error, entry |-> Sectioned(r.sections)]
UnsectionedResult(r) ==
    [threw |-> r.threw, error |-> r.error,
     entry |-> Unsectioned(r.posts, r.config)]

\* the callback of data.mails.map in transformPosts, for one collection
TransformOne(c) ==
    IF c.config.structure.t = "null"
    THEN [threw |-> TRUE, error |-> ErrKeysOfNull,
          entry |-> Unsectioned(<<>>, c.config)]
    ELSE IF HasStructure(c.config.structure)
    THEN SectionedResult(
             SectionLoop(c.posts, c.config.structure.entries, 1, <<>>))
    ELSE UnsectionedResult(sortAndSlicePost(c.posts, c.config))

\* transformPosts(data): the map over data.mails, which a throw leaves
RECURSIVE TransformFrom(_, _, _)
RECURSIVE TransformNext(_, _, _, _)
TransformNext(r, ms, k, acc) ==
    IF r.threw THEN [threw |-> TRUE, error |-> r.error, mails |-> <<>>]
    ELSE TransformFrom(ms, k + 1, Append(acc, r.entry))

TransformFrom(ms, k, acc) ==
    IF k > Len(ms) THEN [threw |-> FALSE, error |-> NoError, mails |-> acc]
    ELSE TransformNext(TransformOne(ms[k]), ms, k, acc)

transformPosts(ms) == TransformFrom(ms, 1, <<>>)

(***************************************************************************)
(* The collections the model shapes.                                       *)
(***************************************************************************)
\* longest generated post list
MaxPosts == 3
\* largest generated config.count
MaxCount == 2
\* most sections of a generated structure
MaxSections == 2

New == <<"N", "e", "w">>

\* posts with ties on rank and on last-week, a numeric string, an empty
\* string and a missing property
PostA == Post(VInt(1), VInt(2), VInt(5), VStr(New))
PostB == Post(VInt(2), VInt(2), VInt(1), VStr(<<>>))
PostC == Post(VStr(<<"5">>), VInt(4), VUndef, VStr(New))
PostCatalogue == {PostA, PostB, PostC}

GeneratedPosts == UNION { [1..n -> PostCatalogue] : n \in 0..MaxPosts }

Sorts ==
    {SortAbsent, SortName("points"), SortName("rank"),
     SortArray(<<"last-week", "-", "rank">>),
     SortArray(<<"points", "/", "rank">>),
     SortArray(<<"points", "%", "rank">>),
     SortArray(<<"rank", "points">>), SortNumber}

Counts == {CountAbsent} \cup {CountOf(n) : n \in (0 - 1)..MaxCount}

\* property and value of the filter; the first is no filter
Filters ==
    {<<"", <<>>>>, <<"isNew", New>>, <<"points", <<"^", "5", "$">>>>}

GeneratedConfigs ==
    { Config(srt, asc, cnt, f[1], f[2], StructAbsent) :
        srt \in Sorts, asc \in BOOLEAN, cnt \in Counts, f \in Filters }

\* the configs of the sections of a generated structure
SectionConfigs ==
    {Config(SortName("rank"), TRUE, CountAbsent, "", <<>>, StructAbsent),
     Config(SortName("last-week"), FALSE, CountOf(2), "", <<>>, StructAbsent),
     Config(SortArray(<<"last-week", "-", "rank">>), FALSE, CountOf(1), "",
            <<>>, StructAbsent),
     Config(SortName("points"), TRUE, CountAbsent, "isNew", New,
            StructAbsent),
     Config(SortArray(<<"points", "%", "rank">>), TRUE, CountAbsent, "",
            <<>>, StructAbsent)}

SectionKeys == <<"top", "most-gains", "new", "rest">>

GeneratedStructures ==
    {StructNull}
        \cup { StructMap([k \in 1..Len(cs) |-> [key |-> SectionKeys[k],
                                                 config |-> cs[k]]]) :
                 cs \in UNION { [1..m -> SectionConfigs] :
                                  m \in 0..MaxSections } }

Collection(posts, config) == [posts |-> posts, config |-> config]

\* the config of a collection that carries a structure
StructConfig(structure) ==
    Config(SortName("points"), FALSE, CountOf(1), "", <<>>, structure)

PointsPost(n) == Post(VInt(n), VUndef, VUndef, VUndef)
SongPost(rank, lastWeek) == Post(VUndef, VInt(rank), VInt(lastWeek), VStr(New))

\* mailData of the tests: points (546 - i) % (i + 60), sort 'points', count 6
TestCollection1 ==
    Collection([i \in 1..6 |-> PointsPost((546 - (i - 1)) % ((i - 1) + 60))],
               Config(SortName("points"), FALSE, CountOf(6), "", <<>>,
                      StructAbsent))

\* mailData2 of the tests: the sections 'top' and 'most-gains'
TestCollection2 ==
    Collection(
        [i \in 1..6 |-> SongPost((546 - (i - 1)) % ((i - 1) + 60), i - 1)],
        StructConfig(StructMap(
            <<[key |-> "top",
               config |-> Config(SortName("rank"), TRUE, CountOf(6), "", <<>>,
                                 StructAbsent)],
              [key |-> "most-gains",
               config |-> Config(SortArray(<<"last-week", "-", "rank">>),
                                 FALSE, CountOf(6), "", <<>>,
                                 StructAbsent)]>>)))

\* six posts with points 10..60, {sort: 'points', ascending: false, count: 3}
PointsCollection ==
    Collection([i \in 1..6 |-> PointsPost(10 * i)],
               Config(SortName("points"), FALSE, CountOf(3), "", <<>>,
                      StructAbsent))

\* {last-week: 5, rank: 2} and {last-week: 1, rank: 4}, sorted ascending by
\* ['last-week', '-', 'rank'], count 2
GainsCollection ==
    Collection(<<SongPost(2, 5), SongPost(4, 1)>>,
               Config(SortArray(<<"last-week", "-", "rank">>), TRUE,
                      CountOf(2), "", <<>>, StructAbsent))

\* a filter on a property no post has: String(undefined) matches /def/
MissingCollection ==
    Collection(<<PostA, PostB>>,
               Config(SortName("rank"), TRUE, CountOf(1), "missing",
                      <<"d", "e", "f">>, StructAbsent))

\* more posts than the default count
SevenPosts == <<PostA, PostB, PostC, PostA, PostB, PostC, PostA>>

\* data.mails of the calls the model makes
ShapeInputs ==
    { <<Collection(p, c)>> : p \in GeneratedPosts, c \in GeneratedConfigs }
        \cup { <<Collection(p, StructConfig(st))>> :
                 p \in GeneratedPosts, st \in GeneratedStructures }
        \cup { <<Collection(SevenPosts, c)>> :
                 c \in { g \in GeneratedConfigs :
                           ~g.count.set \/ g.count.n = 0 } }
        \cup {<<TestCollection1>>, <<TestCollection2>>, <<PointsCollection>>,
              <<GainsCollection>>, <<MissingCollection>>,
              <<TestCollection1, TestCollection2>>,
              <<TestCollection2, PointsCollection, GainsCollection>>}

NoSlice ==
    [threw |-> FALSE, error |-> NoError, posts |-> <<>>,
     config |-> StructConfig(StructAbsent), array |-> <<>>]
NoShape == [threw |-> FALSE, error |-> NoError, mails |-> <<>>]

ShapeIdle ==
    /\ shpc = "idle"
    /\ mails = <<>>
    /\ sliced = NoSlice
    /\ shaped = NoShape

\* sortAndSlicePost is called on the first collection
CallSortAndSlicePost ==
    /\ shpc = "input"
    /\ shpc' = "sliced"
    /\ sliced' = sortAndSlicePost(mails[1].posts, mails[1].config)
    /\ UNCHANGED <<mails, shaped>>
    /\ UNCHANGED <<configVars, startVars, retryVars, accepted, pathVars,
                   callVars>>

\* transformPosts is called on data
CallTransformPosts ==
    /\ shpc = "input"
    /\ shpc' = "shaped"
    /\ shaped' = transformPosts(mails)
    /\ UNCHANGED <<mails, sliced>>
    /\ UNCHANGED <<configVars, startVars, retryVars, accepted, pathVars,
                   callVars>>

(***************************************************************************)
(* Calls of safeEvaluate.                                                  *)
(***************************************************************************)
\* largest magnitude of a generated integer operand
MaxOperand == 3

NoCall == [f |-> "none"]

CallIdle ==
    /\ cpc = "idle"
    /\ cArgs = NoCall
    /\ cRet = NoCall

\* operands: integers, a numeric string, and values that are no number
Operands ==
    {VInt(n) : n \in (0 - MaxOperand)..MaxOperand}
        \cup {VStr(<<"2">>), VStr(<<"a">>), VStr(<<>>), VUndef}

Operators == {"+", "-", "*", "/", "%", "**", "", "+1;"}

EvaluateInputs ==
    { [f |-> "safeEvaluate", operand1 |-> a, operator |-> op, operand2 |-> b] :
        a \in Operands, op \in Operators, b \in Operands }

CallSafeEvaluate ==
    /\ cpc = "safeEvaluate"
    /\ cpc' = "evaluated"
    /\ cRet' = safeEvaluate(cArgs.operand1, cArgs.operator, cArgs.operand2)
    /\ UNCHANGED cArgs
    /\ UNCHANGED <<configVars, startVars, retryVars, accepted, pathVars,
                   shapeVars>>

(***************************************************************************)
(* The constructor, MailHandler.init() and the transport options of        *)
(* sendMail.                                                               *)
(***************************************************************************)
\* the constructor's parameters, in the order it tests them
Settings ==
    <<"username", "password", "host", "port", "fromEmail", "dataDir",
      "viewsDir">>

ErrNotProvided(name) == <<name, " not provided">>

\* the constructor's tests but the last
RECURSIVE FirstMissingButLast(_, _)
FirstMissingButLast(args, k) ==
    IF k >= Len(Settings) THEN ""
    ELSE IF ~Truthy(args[Settings[k]]) THEN Settings[k]
    ELSE FirstMissingButLast(args, k + 1)

\* if (!username) throw ...; if (!password) throw ...; ...: the first
\* parameter from the k-th on that is falsy, "" when there is none
RECURSIVE FirstMissing(_, _)
FirstMissing(args, k) ==
    IF k > Len(Settings) THEN ""
    ELSE IF ~Truthy(args[Settings[k]]) THEN Settings[k]
    ELSE FirstMissing(args, k + 1)

\* what new MailHandler(args) gives for the first missing parameter found
Constructed(args, missing) ==
    IF missing # ""
    THEN [threw |-> TRUE, error |-> ErrNotProvided(missing), handler |-> args,
          secure |-> FALSE]
    ELSE [threw |-> FALSE, error |-> NoError, handler |-> args,
          secure |-> FALSE]

\* new MailHandler({...})
NewMailHandler(args) == Constructed(args, FirstMissing(args, 1))

DefaultViewsDir == VStr(<<"./email-templates">>)
DefaultDataDir == VStr(<<"./mail-data">>)

\* process.env.X = process.env.X || fallback
OrDefault(v, fallback) == IF Truthy(v) THEN v ELSE fallback

\* DataHandler.loadConfig(), on the environment dotenv has filled
loadConfig(env) ==
    [env EXCEPT !.VIEWS_DIR = OrDefault(env.VIEWS_DIR, DefaultViewsDir),
                !.MAIL_DATA_DIR = OrDefault(env.MAIL_DATA_DIR, DefaultDataDir)]

\* the parameters init() hands the constructor
InitParameters(env) ==
    [host |-> env.HOST, port |-> env.PORT, username |-> env.LOGIN,
     password |-> env.PASSWORD, fromEmail |-> env.FROM_EMAIL,
     viewsDir |-> env.VIEWS_DIR, dataDir |-> env.MAIL_DATA_DIR]

\* MailHandler.init()
init(env) == NewMailHandler(InitParameters(loadConfig(env)))

\* the port of secure SMTP
SecurePort == 465

\* secure: this.port === 465
Secure(port) == port.t = "number" /\ port.n = SecurePort

Given == VStr(<<"x">>)

\* ports handed to the constructor, and ports in the environment, where every
\* value is text
ArgPorts == {VUndef, VInt(465), VInt(25), VStr(<<"4", "6", "5">>)}
EnvPorts == {VUndef, VStr(<<"4", "6", "5">>), VStr(<<"2", "5">>)}

ConstructorInputs ==
    { [username |-> u, password |-> pw, host |-> h, port |-> pt,
       fromEmail |-> fe, dataDir |-> dd, viewsDir |-> vd] :
        u \in {VUndef, Given}, pw \in {VUndef, Given}, h \in {VUndef, Given},
        pt \in ArgPorts, fe \in {VUndef, Given},
        dd \in {VUndef, Given}, vd \in {VUndef, VStr(<<>>), Given} }

Environments ==
    { [LOGIN |-> u, PASSWORD |-> pw, HOST |-> h, PORT |-> pt,
       FROM_EMAIL |-> fe, MAIL_DATA_DIR |-> dd, VIEWS_DIR |-> vd] :
        u \in {VUndef, Given}, pw \in {VUndef, Given}, h \in {VUndef, Given},
        pt \in EnvPorts, fe \in {VUndef, Given},
        dd \in {VUndef, VStr(<<>>), Given}, vd \in {VUndef, Given} }

CallConstructor ==
    /\ cpc = "constructor"
    /\ cpc' = "constructed"
    /\ cRet' = NewMailHandler(cArgs.args)
    /\ UNCHANGED cArgs
    /\ UNCHANGED <<configVars, startVars, retryVars, accepted, pathVars,
                   shapeVars>>

CallInit ==
    /\ cpc = "init"
    /\ cpc' = "constructed"
    /\ cRet' = init(cArgs.env)
    /\ UNCHANGED cArgs
    /\ UNCHANGED <<configVars, startVars, retryVars, accepted, pathVars,
                   shapeVars>>

\* sendMail on the handler, with arguments that pass its validation: the
\* options it hands createTransport
CreateTransport ==
    /\ cpc = "constructed"
    /\ ~cRet.threw
    /\ cpc' = "transport"
    /\ cRet' = [cRet EXCEPT !.secure = Secure(cRet.handler.port)]
    /\ UNCHANGED cArgs
    /\ UNCHANGED <<configVars, startVars, retryVars, accepted, pathVars,
                   shapeVars>>

(***************************************************************************)
(* DataHandler.read.                                                       *)
(***************************************************************************)
SchemeChars == {"h", "f"}

\* url.isUri(filename): the text opens with a scheme and a colon
isUri(filename) ==
    \E i \in 2..Len(filename) :
        /\ filename[i] = ":"
        /\ \A k \in 1..(i - 1) : filename[k] \in SchemeChars

\* locators: URIs and local paths
Locators ==
    {<<"h", ":", "/", "/", "a">>, <<"h", ":", "/", "/", "b">>,
     <<"f", ":", "/", "c">>, <<"/", "d", "/", "a">>, <<"d", "/", "b">>,
     <<"c">>}

\* what a download can fail with
FetchErrors ==
    {<<"Response code 404 (Not Found)">>, <<"connect ECONNREFUSED">>}

\* what readFileSync can fail with: a missing file, a directory
LocalErrors(filename) ==
    {<<"ENOENT: no such file or directory, open '">> \o filename \o <<"'">>,
     <<"EISDIR: illegal operation on a directory, read">>}

\* the texts a locator can hold, and what yaml.load makes of each
Texts ==
    {[text |-> "name: Daily Digest", parses |-> TRUE, cause |-> NoError],
     [text |-> "[1, 2, 3]", parses |-> TRUE, cause |-> NoError],
     [text |-> "", parses |-> TRUE, cause |-> NoError],
     [text |-> "a: [", parses |-> FALSE,
      cause |-> <<"unexpected end of the stream within a flow collection">>],
     [text |-> "a: b: c", parses |-> FALSE,
      cause |-> <<"bad indentation of a mapping entry">>]}

ErrParse(filename, cause) ==
    <<"Failed to parse YAML file ">> \o filename \o <<": ">> \o cause

NoText == [text |-> "", parses |-> TRUE, cause |-> NoError]

\* the download or the local read threw: read rejects with that error
ReadThrew(e) ==
    [state |-> "threw", error |-> e, string |-> NoText, data |-> ""]

\* try { return yaml.load(string) } catch (error) { throw new Error(...) },
\* the same on both branches of yaml.DEFAULT_SAFE_SCHEMA
Parse(filename, string) ==
    IF string.parses
    THEN [state |-> "returned", error |-> NoError, string |-> string,
          data |-> string.text]
    ELSE [state |-> "threw", error |-> ErrParse(filename, string.cause),
          string |-> string, data |-> ""]

ReadInputs ==
    { [f |-> "read", filename |-> l, safeSchema |-> b] :
        l \in Locators, b \in BOOLEAN }

\* the first half of read: the download, or the local read
LoadString ==
    /\ cpc = "read"
    /\ \/ \E string \in Texts :
              /\ cpc' = "loaded"
              /\ cRet' = [state |-> "loaded", error |-> NoError,
                          string |-> string, data |-> ""]
       \/ \E e \in (IF isUri(cArgs.filename) THEN FetchErrors
                     ELSE LocalErrors(cArgs.filename)) :
              /\ cpc' = "settled"
              /\ cRet' = ReadThrew(e)
    /\ UNCHANGED cArgs
    /\ UNCHANGED <<configVars, startVars, retryVars, accepted, pathVars,
                   shapeVars>>

\* the second half of read: yaml.load
ParseString ==
    /\ cpc = "loaded"
    /\ cpc' = "settled"
    /\ cRet' = Parse(cArgs.filename, cRet.string)
    /\ UNCHANGED cArgs
    /\ UNCHANGED <<configVars, startVars, retryVars, accepted, pathVars,
                   shapeVars>>

(***************************************************************************)
(* Specifications.                                                         *)
(***************************************************************************)
ConfigInit ==
    /\ dataDir \in DataDirs
    /\ fromEmail \in FromEmails
    /\ transport \in Transports
    /\ shutdownAt = NoSignal

PathIdle ==
    /\ ppc = "idle"
    /\ pPath = <<>>
    /\ pSafe = FALSE

RetryInit ==
    /\ rpc = "idle"
    /\ rEmail = <<>>
    /\ rMail = <<>>
    /\ rName = <<>>
    /\ maxRetries = 0
    /\ attempt = 0
    /\ lastError = Undefined
    /\ delay = 0
    /\ thrown = NoError
    /\ waits = <<>>
    /\ calls = 0
    /\ sendLog = <<>>

StartInit ==
    /\ files = <<>>
    /\ idx = 1
    /\ count = 0
    /\ failedCount = 0
    /\ errors = <<>>
    /\ cres = Pending
    /\ result = NoResult
    /\ composed = {}

\* a MailHandler whose start() is called
Init ==
    /\ ConfigInit
    /\ directory \in Listings \cup {NoDirectory}
    /\ documents \in Documents
    /\ spc = "init"
    /\ StartInit
    /\ RetryInit
    /\ accepted = <<>>
    /\ PathIdle
    /\ ShapeIdle
    /\ CallIdle

Next ==
    \/ ReadDir
    \/ LoopStep
    \/ ComposeSettles
    \/ AfterCompose
    \/ SendAttempt
    \/ TimerFires
    \/ SendReturns
    \/ SendThrows
    \/ Finish

Spec == Init /\ [][Next]_vars

\* a MailHandler whose sendMailWithRetry is called directly
InitRetry ==
    /\ ConfigInit
    /\ directory = <<>>
    /\ documents = "any"
    /\ spc = "direct"
    /\ StartInit
    /\ RetryInit
    /\ accepted = <<>>
    /\ PathIdle
    /\ ShapeIdle
    /\ CallIdle

NextRetry ==
    \/ DirectCall
    \/ SendAttempt
    \/ TimerFires
    \/ ShutdownSignal

SpecRetry == InitRetry /\ [][NextRetry]_vars

\* a MailHandler whose isSafePath is called
EnvIdle ==
    /\ fromEmail = <<"f", "@", "b", ".", "c">>
    /\ transport = "accepting"
    /\ shutdownAt = NoSignal
    /\ documents = "wellFormed"
    /\ directory = <<>>
    /\ spc = "direct"
    /\ StartInit
    /\ RetryInit
    /\ accepted = <<>>

InitPath ==
    /\ dataDir \in DataDirs
    /\ EnvIdle
    /\ ppc = "call"
    /\ pPath \in PathInputs
    /\ pSafe = FALSE
    /\ ShapeIdle
    /\ CallIdle

NextPath == CallIsSafePath

SpecPath == InitPath /\ [][NextPath]_vars

\* a MailHandler whose sortAndSlicePost or transformPosts is called
InitShape ==
    /\ dataDir = <<"/", "d">>
    /\ EnvIdle
    /\ PathIdle
    /\ shpc = "input"
    /\ mails \in ShapeInputs
    /\ sliced = NoSlice
    /\ shaped = NoShape
    /\ CallIdle

NextShape ==
    \/ CallSortAndSlicePost
    \/ CallTransformPosts

SpecShape == InitShape /\ [][NextShape]_vars

\* everything but the call variables at rest
AllIdle ==
    /\ dataDir = <<"/", "d">>
    /\ EnvIdle
    /\ PathIdle
    /\ ShapeIdle

\* safeEvaluate is called
InitEvaluate ==
    /\ AllIdle
    /\ cpc = "safeEvaluate"
    /\ cArgs \in EvaluateInputs
    /\ cRet = NoCall

NextEvaluate == CallSafeEvaluate

SpecEvaluate == InitEvaluate /\ [][NextEvaluate]_vars

\* a MailHandler is made, by the constructor or by init(), and sends
InitConfigure ==
    /\ AllIdle
    /\ \/ /\ cpc = "constructor"
          /\ cArgs \in { [f |-> "constructor", args |-> a] :
                            a \in ConstructorInputs }
       \/ /\ cpc = "init"
          /\ cArgs \in { [f |-> "init", env |-> e] : e \in Environments }
    /\ cRet = NoCall

NextConfigure ==
    \/ CallConstructor
    \/ CallInit
    \/ CreateTransport

SpecConfigure == InitConfigure /\ [][NextConfigure]_vars

\* DataHandler.read is called
InitRead ==
    /\ AllIdle
    /\ cpc = "read"
    /\ cArgs \in ReadInputs
    /\ cRet = NoCall

NextRead ==
    \/ LoadString
    \/ ParseString

SpecRead == InitRead /\ [][NextRead]_vars

(***************************************************************************)
(* Properties of start() and sendMailWithRetry.                            *)
(***************************************************************************)
Min(a, b) == IF a <= b THEN a ELSE b

\* a rejected constructMailData or a thrown sendMailWithRetry awaits the catch
ThrowPending ==
    \/ spc = "composed" /\ cres.state = "rejected"
    \/ spc = "sending" /\ rpc = "threw"

C1_CatchStep ==
    ThrowPending =>
        /\ failedCount' = failedCount + 1
        /\ count' = count
        /\ Len(errors') = Len(errors) + 1
        /\ SubSeq(errors', 1, Len(errors)) = errors
        /\ Includes(errors'[Len(errors')], files[idx])
        /\ files' = files
        /\ idx' = idx + 1
        /\ spc' = "loop"

C1_AllProcessed ==
    spc = "done" =>
        /\ idx = Len(files) + 1
        /\ \A j \in 1..Len(files) :
               (EmailRegexTest(files[j]) /\ isSafePath(dataDir, files[j]))
                   => j \in composed

\* wherever start() stands before its return, its next step is defined
C1_GoesOn ==
    /\ spc \in {"init", "loop", "composing", "composed", "sending", "done"}
    /\ spc # "init" => idx \in 1..(Len(files) + 1)
    /\ spc \in {"composing", "composed", "sending"} => idx <= Len(files)
    /\ spc = "composed" => cres.state \in {"fulfilled", "rejected"}
    /\ spc = "sending" => rpc \in {"attempt", "waiting", "returned", "threw"}

\* C1: when composing or delivering a candidate throws, the next step of
\* start() adds exactly 1 to failed and appends exactly one message naming
\* that file to errors, and goes on to the next entry; start() never stops
\* before it returns, and when it returns every candidate of the listing,
\* those after a failed one included, was processed.
C1_FailureIsolated ==
    /\ [][C1_CatchStep]_vars
    /\ [](C1_AllProcessed /\ C1_GoesOn)

\* a failed first entry, then a second entry that was composed and sent
C1_Witness ==
    /\ spc = "done"
    /\ Len(files) = 2
    /\ result.failed = 1
    /\ result.success = 1
    /\ Len(result.errors) = 1
    /\ Includes(result.errors[1], files[1])
    /\ composed = {1, 2}
    /\ accepted = <<2>>

\* the arguments pass sendMail's validation
ValidArgs ==
    /\ rpc # "idle"
    /\ isValidEmail(rEmail)
    /\ isValidEmail(fromEmail)
    /\ IsText(rMail)
    /\ IsText(rName)

\* the transport has failed every time it was invoked
AllFailed == \A k \in 1..Len(sendLog) : sendLog[k] # "ok"

\* C2: sendMailWithRetry with valid arguments, maxRetries = N >= 1 and a
\* transport that fails on every attempt invokes the transport N times and no
\* more, never returns normally, and throws 'Failed to send email after N
\* attempts: ' followed by the message of the last transport error.
C2_ExactlyNAttempts ==
    (ValidArgs /\ maxRetries >= 1 /\ AllFailed) =>
        /\ Len(sendLog) <= maxRetries
        /\ rpc # "returned"
        /\ rpc = "threw" =>
               /\ Len(sendLog) = maxRetries
               /\ thrown = <<"Failed to send email after ">>
                               \o NumStr(maxRetries)
                               \o <<" attempts: ", "SMTP error: ",
                                    sendLog[maxRetries]>>
        /\ rpc # "threw" => rpc \in {"attempt", "waiting"}

\* three failed attempts of three, the last error not the first
C2_Witness ==
    /\ ValidArgs
    /\ rpc = "threw"
    /\ maxRetries = 3
    /\ Len(sendLog) = 3
    /\ AllFailed
    /\ sendLog[1] # sendLog[3]

\* C3: the k-th wait is 2^k seconds; a wait follows a failed attempt k only
\* when k < maxRetries; attempt k + 1 starts when k waits have elapsed; no
\* wait follows the last attempt or a successful one; a transport that fails
\* twice and then accepts gives the waits 2 s and 4 s and a normal return.
C3_Backoff ==
    /\ \A k \in 1..Len(waits) : waits[k] = Pow2(k) * 1000
    /\ rpc = "waiting" =>
           /\ calls < maxRetries
           /\ Len(waits) = calls - 1
           /\ delay = Pow2(calls) * 1000
    /\ rpc = "attempt" => Len(waits) = calls
    /\ (rpc \in {"returned", "threw"} /\ calls > 0) => Len(waits) = calls - 1
    /\ (rpc \in {"returned", "threw"} /\ calls = 0) => waits = <<>>
    /\ rpc = "returned" => sendLog[Len(sendLog)] = "ok"
    /\ (Len(sendLog) = 3 /\ sendLog[1] # "ok" /\ sendLog[2] # "ok"
          /\ sendLog[3] = "ok") =>
           /\ waits = <<2000, 4000>>
           /\ calls = 3
           /\ rpc = "returned"

\* two failures, the waits of 2 s and 4 s, then the accepted third attempt
C3_Witness ==
    /\ rpc = "returned"
    /\ Len(sendLog) = 3
    /\ sendLog[3] = "ok"
    /\ waits = <<2000, 4000>>

\* C4: when an argument fails sendMail's validation, the transport is never
\* invoked and sendMailWithRetry throws that validation error after one call
\* of sendMail, with no wait and no further attempt.
C4_ValidationNotRetried ==
    (rpc # "idle" /\ ~ValidArgs) =>
        /\ sendLog = <<>>
        /\ calls <= 1
        /\ waits = <<>>
        /\ rpc # "waiting"
        /\ rpc = "threw" =>
               thrown = SendMailValidation(rEmail, rMail, rName)

\* <identity>-mail-<digits>.yaml: a non-empty identity, "-mail-", one or more
\* digits, ".yaml"
MatchesNamePattern(s) ==
    \E i \in 1..Len(s) : \E j \in 1..Len(s) :
        /\ i + 7 < j
        /\ SubSeq(s, i + 1, i + 6) = MailTok
        /\ \A k \in (i + 7)..(j - 1) : s[k] \in Digits
        /\ SubSeq(s, j, Len(s)) = YamlTok

C5_SkipStep ==
    (spc = "loop" /\ idx <= Len(files) /\ ~MatchesNamePattern(files[idx])) =>
        /\ count' = count
        /\ failedCount' = failedCount
        /\ errors' = errors
        /\ composed' = composed
        /\ accepted' = accepted
        /\ calls' = calls
        /\ rpc' = rpc
        /\ idx' = idx + 1

C5_NeverAttempted ==
    /\ \A j \in composed : MatchesNamePattern(files[j])
    /\ \A k \in 1..Len(accepted) : MatchesNamePattern(files[accepted[k]])
    /\ spc \in {"composing", "composed", "sending"} =>
           MatchesNamePattern(files[idx])

\* two candidates named after valid addresses whose documents are well-formed,
\* one entry that does not match the pattern, a valid sender and a transport
\* that accepts
C5_ScenarioEntries ==
    /\ transport = "accepting"
    /\ documents = "wellFormed"
    /\ isValidEmail(fromEmail)
    /\ Len(files) = 3
    /\ Cardinality({j \in 1..3 : files[j] \in {FileGood1, FileGood2}}) = 2
    /\ Cardinality({j \in 1..3 : ~MatchesNamePattern(files[j])}) = 1

C5_Scenario ==
    (spc = "done" /\ C5_ScenarioEntries) =>
        /\ result.success = 2
        /\ result.failed = 0
        /\ result.errors = <<>>

\* C5: an entry whose name does not match <identity>-mail-<digits>.yaml is
\* never composed or sent, and the pass of the loop over it changes none of
\* success, failed and errors; so two well-formed candidates and one
\* non-matching name, with a transport that accepts, give success = 2 and
\* failed = 0.
C5_NonMatchingSkipped ==
    /\ [][C5_SkipStep]_vars
    /\ [](C5_NeverAttempted /\ C5_Scenario)

\* the scenario's run, returned, with the non-matching entry between the two
\* candidates
C5_Witness ==
    /\ spc = "done"
    /\ C5_ScenarioEntries
    /\ ~MatchesNamePattern(files[2])
    /\ composed = {1, 3}
    /\ accepted = <<1, 3>>
    /\ result.success = 2

\* C6: isSafePath(p) is true only if p, resolved against the data directory,
\* is that directory or lies below it; and start() never composes an entry
\* isSafePath refuses.
C6_SafeMeansInside ==
    /\ (ppc = "done" /\ pSafe) =>
           SegsInside(PathResolveSegs(dataDir, pPath),
                      PathResolveSegs(dataDir, <<>>))
    /\ \A j \in composed : isSafePath(dataDir, files[j])

(***************************************************************************)
(* Properties of sortAndSlicePost and transformPosts.                      *)
(***************************************************************************)
\* config.count as the data model has it: absent, or a positive integer
CountInDomain(config) == ~config.count.set \/ config.count.n >= 1

\* the count of the data model, 6 when absent
CountOrSix(config) == IF config.count.set THEN config.count.n ELSE 6

\* a post passes when there is no filter, or the value pattern matches the
\* string form of its property
Passes(config, post) ==
    (config.property # "" /\ config.value # <<>>) =>
        RegexTest(config.value, ToStringValue(GetProp(post, config.property)))

Passing(posts, config) == SelectSeq(posts, LAMBDA q : Passes(config, q))

\* how often post occurs in posts
Occurrences(posts, post) ==
    Cardinality({i \in 1..Len(posts) : posts[i] = post})

C7_LengthOf(posts, config, kept) ==
    /\ Len(kept) = Min(CountOrSix(config), Len(Passing(posts, config)))
    /\ \A i \in 1..Len(kept) : Passes(config, kept[i])
    /\ \A i \in 1..Len(kept) :
           Occurrences(kept, kept[i]) <= Occurrences(posts, kept[i])

C7_Entry(c, e) ==
    IF e.sectioned
    THEN \A j \in 1..Len(e.sections) :
             CountInDomain(e.sections[j].config) =>
                 C7_LengthOf(c.posts, e.sections[j].config,
                             e.sections[j].posts)
    ELSE CountInDomain(c.config) => C7_LengthOf(c.posts, c.config, e.posts)

\* C7: for a count that is absent or a positive integer, the posts that
\* sortAndSlicePost returns, called directly or for a collection or a section
\* by transformPosts, are min(count, number of posts that pass the filter)
\* many, count being 6 when absent, and every one of them is a post of the
\* input that passes the filter.
C7_Length ==
    /\ (shpc = "sliced" /\ ~sliced.threw /\ CountInDomain(mails[1].config)) =>
           C7_LengthOf(mails[1].posts, mails[1].config, sliced.posts)
    /\ (shpc = "shaped" /\ ~shaped.threw) =>
           /\ Len(shaped.mails) = Len(mails)
           /\ \A k \in 1..Len(mails) : C7_Entry(mails[k], shaped.mails[k])

\* seven posts and no count give six; a filter that two of three posts pass
\* and a count of 2 give those two
C7_Witness ==
    /\ shpc = "sliced"
    /\ ~sliced.threw
    /\ \/ /\ ~mails[1].config.count.set
          /\ mails[1].config.property = ""
          /\ Len(mails[1].posts) = 7
          /\ Len(sliced.posts) = 6
       \/ /\ mails[1].config.count = CountOf(2)
          /\ mails[1].config.property = "isNew"
          /\ mails[1].posts = <<PostA, PostB, PostC>>
          /\ Len(sliced.posts) = 2

\* the sort key is specified: sort is a string or a three-element array
SortSpecified(config) == config.sort.t = "string" \/ IsDerived(config.sort)

\* a may come before z: their keys are in the order of config.ascending
MayPrecede(config, a, z) ==
    IF config.ascending
    THEN NumLeq(SortKey(config.sort, a), SortKey(config.sort, z))
    ELSE NumLeq(SortKey(config.sort, z), SortKey(config.sort, a))

\* a post of rest that is not among kept, or not as often
LeftOut(rest, kept, post) == Occurrences(kept, post) < Occurrences(rest, post)

C8_OrderOf(config, rest, kept) ==
    /\ Len(kept) = Min(CountOrSix(config), Len(rest))
    /\ \A i \in 1..(Len(kept) - 1) : MayPrecede(config, kept[i], kept[i + 1])
    /\ \A i \in 1..Len(kept) :
           Occurrences(kept, kept[i]) <= Occurrences(rest, kept[i])
    /\ \A i \in 1..Len(rest) : \A j \in 1..Len(kept) :
           LeftOut(rest, kept, rest[i]) => MayPrecede(config, kept[j], rest[i])

C8_Entry(c, e) ==
    IF e.sectioned
    THEN \A j \in 1..Len(e.sections) :
             (CountInDomain(e.sections[j].config)
                  /\ SortSpecified(e.sections[j].config)) =>
                 C8_OrderOf(e.sections[j].config,
                            Passing(c.posts, e.sections[j].config),
                            e.sections[j].posts)
    ELSE (CountInDomain(c.config) /\ SortSpecified(c.config)) =>
             C8_OrderOf(c.config, Passing(c.posts, c.config), e.posts)

PointsOf(posts) == [i \in 1..Len(posts) |-> posts[i].points.n]

\* C8: for a sort that is a string or a three-element array, the posts
\* returned are the first count of the filtered posts in the order of the sort
\* key, ascending or descending as config.ascending says: neighbours are in
\* key order, and no filtered post that was left out ranks strictly before a
\* returned one.  Points 10..60, descending, count 3, give 60, 50, 40.
C8_SortedThenSliced ==
    /\ (shpc = "sliced" /\ ~sliced.threw /\ CountInDomain(mails[1].config)
          /\ SortSpecified(mails[1].config)) =>
           C8_OrderOf(mails[1].config,
                      Passing(mails[1].posts, mails[1].config), sliced.posts)
    /\ (shpc = "shaped" /\ ~shaped.threw) =>
           \A k \in 1..Len(mails) : C8_Entry(mails[k], shaped.mails[k])
    /\ (shpc = "sliced" /\ mails = <<PointsCollection>>) =>
           /\ ~sliced.threw
           /\ PointsOf(sliced.posts) = <<60, 50, 40>>

\* the posts of the example, sliced
C8_Witness ==
    /\ shpc = "sliced"
    /\ mails = <<PointsCollection>>
    /\ PointsOf(mails[1].posts) = <<10, 20, 30, 40, 50, 60>>
    /\ PointsOf(sliced.posts) = <<60, 50, 40>>

C9_Entry(c, e) ==
    IF c.config.structure.t = "mapping" /\ Len(c.config.structure.entries) > 0
    THEN /\ e.sectioned
         /\ Len(e.sections) = Len(c.config.structure.entries)
         /\ \A i \in 1..Len(e.sections) :
                e.sections[i].config = c.config.structure.entries[i].config
    ELSE /\ ~e.sectioned
         /\ e.sections = <<>>
         /\ e.config = c.config

\* C9: when transformPosts returns, a collection whose config.structure is a
\* mapping of n >= 1 keys has become n sections, the i-th carrying the config
\* of the i-th key, and every other collection has become one unsectioned
\* entry with its own config; no entry is both.
C9_Sectioning ==
    (shpc = "shaped" /\ ~shaped.threw) =>
        /\ Len(shaped.mails) = Len(mails)
        /\ \A k \in 1..Len(mails) : C9_Entry(mails[k], shaped.mails[k])

\* two sections with different configs, and an unsectioned entry beside a
\* sectioned one
C9_Witness ==
    /\ shpc = "shaped"
    /\ ~shaped.threw
    /\ \/ /\ Len(mails) = 1
          /\ Len(shaped.mails[1].sections) = 2
          /\ shaped.mails[1].sections[1].config
                 # shaped.mails[1].sections[2].config
       \/ /\ Len(mails) = 2
          /\ ~shaped.mails[1].sectioned
          /\ shaped.mails[2].sectioned

C10_Entry(c, e) ==
    e.sectioned =>
        \A i \in 1..Len(e.sections) :
            e.sections[i].posts
                = sortAndSlicePost(c.posts,
                                   c.config.structure.entries[i].config).posts

\* C10: each section's posts are what sortAndSlicePost gives for the
\* collection's original posts under that section's config alone, the order
\* of equal keys included, whatever the sections before it did.
C10_SectionsIndependent ==
    (shpc = "shaped" /\ ~shaped.threw) =>
        \A k \in 1..Len(mails) : C10_Entry(mails[k], shaped.mails[k])

(***************************************************************************)
(* Properties of safeEvaluate.                                             *)
(***************************************************************************)
\* the number an operand stands for: itself, the value of a numeric string,
\* and 0 for anything that is no number
OperandNumber(v) ==
    IF v.t = "number" THEN v.n
    ELSE IF v.t = "string" /\ AllDigits(v.str) THEN DigitsValue(v.str, 0)
    ELSE 0

\* v is the number a op b, division by zero being 0
IsReference(v, a, op, b) ==
    /\ ~v.nan
    /\ v.d > 0
    /\ CASE op = "+" -> v.n = (a + b) * v.d
         [] op = "-" -> v.n = (a - b) * v.d
         [] op = "*" -> v.n = (a * b) * v.d
         [] op = "/" -> IF b = 0 THEN v.n = 0 ELSE v.n * b = a * v.d
         [] OTHER -> FALSE

\* C11: for an operator among + - * / safeEvaluate returns a + b, a - b,
\* a * b or a / b of the numbers its operands stand for, a / 0 being 0 and an
\* operand that is no number counting as 0, and does not throw; for any other
\* operator it throws the invalid-operator error naming the operator, whatever
\* the operands, and gives no value.
C11_Reference ==
    cpc = "evaluated" =>
        IF cArgs.operator \in {"+", "-", "*", "/"}
        THEN /\ ~cRet.threw
             /\ IsReference(cRet.value, OperandNumber(cArgs.operand1),
                            cArgs.operator, OperandNumber(cArgs.operand2))
        ELSE /\ cRet.threw
             /\ cRet.error
                    = <<"Invalid operator: ", cArgs.operator,
                        ". Allowed operators: +, -, *, /">>

\* 3 / 2, a division by zero, an operand that is no number, and a refused
\* operator
C11_Witness ==
    /\ cpc = "evaluated"
    /\ \/ /\ cArgs.operand1 = VInt(3)
          /\ cArgs.operator = "/"
          /\ cArgs.operand2 = VInt(2)
          /\ cRet.value = Rat(3, 2)
       \/ /\ cArgs.operator = "/"
          /\ cArgs.operand2 = VInt(0)
          /\ cArgs.operand1 = VInt(3)
          /\ cRet.value = JsNum(0)
       \/ /\ cArgs.operand1 = VStr(<<"a">>)
          /\ cArgs.operator = "-"
          /\ cArgs.operand2 = VInt(2)
          /\ cRet.value = JsNum(0 - 2)
       \/ /\ cArgs.operator = "%"
          /\ cRet.threw

(***************************************************************************)
(* Properties of the constructor, init() and the transport options.        *)
(***************************************************************************)
\* a setting is missing: undefined, or empty
Missing(v) == v.t = "undefined" \/ (v.t = "string" /\ v.str = <<>>)

\* the configuration a call was given, under the constructor's names
Configured ==
    IF cArgs.f = "constructor" THEN cArgs.args ELSE InitParameters(cArgs.env)

SomeMissing(names) == \E name \in names : Missing(Configured[name])

AllSettings ==
    {"username", "password", "host", "port", "fromEmail", "dataDir",
     "viewsDir"}

\* C12: when any one of the seven settings is missing, creating the
\* MailHandler throws, through the constructor and through init() alike.
C12_MissingThrows ==
    (cpc \in {"constructed", "transport"} /\ SomeMissing(AllSettings)) =>
        cRet.threw

\* the constructor throws exactly when one of its seven parameters is
\* missing, and names the first that is
C12_Constructor ==
    (cpc \in {"constructed", "transport"} /\ cArgs.f = "constructor") =>
        /\ cRet.threw <=> SomeMissing(AllSettings)
        /\ cRet.threw =>
               \E k \in 1..Len(Settings) :
                   /\ Missing(cArgs.args[Settings[k]])
                   /\ \A j \in 1..(k - 1) : ~Missing(cArgs.args[Settings[j]])
                   /\ cRet.error = <<Settings[k], " not provided">>

\* init() throws exactly when one of HOST, PORT, LOGIN, PASSWORD, FROM_EMAIL
\* is missing; a missing MAIL_DATA_DIR or VIEWS_DIR is given its default
C12_Init ==
    (cpc \in {"constructed", "transport"} /\ cArgs.f = "init") =>
        /\ cRet.threw
               <=> SomeMissing({"host", "port", "username", "password",
                                "fromEmail"})
        /\ ~cRet.threw =>
               /\ cRet.handler.dataDir
                      = IF Missing(cArgs.env.MAIL_DATA_DIR)
                        THEN VStr(<<"./mail-data">>)
                        ELSE cArgs.env.MAIL_DATA_DIR
               /\ cRet.handler.viewsDir
                      = IF Missing(cArgs.env.VIEWS_DIR)
                        THEN VStr(<<"./email-templates">>)
                        ELSE cArgs.env.VIEWS_DIR

\* a handler that exists, and so one whose start() or sendMail can run, has
\* all seven settings
C12_NoHandlerWithout ==
    (cpc \in {"constructed", "transport"} /\ ~cRet.threw) =>
        \A name \in AllSettings : ~Missing(cRet.handler[name])

\* C12, amended: the constructor throws when any of its seven parameters is
\* missing; init() throws when HOST, PORT, LOGIN, PASSWORD or FROM_EMAIL is
\* missing from the environment and gives a missing MAIL_DATA_DIR or
\* VIEWS_DIR the default './mail-data' or './email-templates'; no handler
\* exists with a setting missing.
C12_RequiredSettings == C12_Constructor /\ C12_Init /\ C12_NoHandlerWithout

\* the constructor refusing a missing viewsDir alone, and init() making a
\* handler of an environment without MAIL_DATA_DIR and VIEWS_DIR
C12_Witness ==
    /\ cpc = "constructed"
    /\ \/ /\ cArgs.f = "constructor"
          /\ cRet.threw
          /\ cRet.error = <<"viewsDir", " not provided">>
       \/ /\ cArgs.f = "init"
          /\ ~cRet.threw
          /\ Missing(cArgs.env.MAIL_DATA_DIR)
          /\ Missing(cArgs.env.VIEWS_DIR)

\* the configured port is 465, as a number or as text
PortIs465(port) ==
    \/ port.t = "number" /\ port.n = 465
    \/ port.t = "string" /\ port.str = <<"4", "6", "5">>

\* C13: sendMail hands createTransport secure: true exactly when the
\* configured port is 465, a port that init() took from the environment as
\* the text '465' included.
C13_SecureOn465 ==
    cpc = "transport" => (cRet.secure <=> PortIs465(cRet.handler.port))

(***************************************************************************)
(* Properties of DataHandler.read.                                         *)
(***************************************************************************)
\* the causes a read can fail for
Causes(filename) ==
    FetchErrors \cup LocalErrors(filename)
        \cup {<<"unexpected end of the stream within a flow collection">>,
              <<"bad indentation of a mapping entry">>}

\* C14: read(locator) returns the parsed document, or throws an error whose
\* message carries the locator and the message of the underlying cause,
\* whether the parse, the download or the local read failed.
C14_ErrorCarriesLocator ==
    cpc = "settled" =>
        \/ /\ cRet.state = "returned"
           /\ cRet.string.parses
           /\ cRet.data = cRet.string.text
        \/ /\ cRet.state = "threw"
           /\ Includes(cRet.error, cArgs.filename)
           /\ \E cause \in Causes(cArgs.filename) : Includes(cRet.error, cause)

(***************************************************************************)
(* Shutdown during the backoff.                                            *)
(***************************************************************************)
\* C15: once a shutdown signal has arrived while sendMailWithRetry was
\* waiting between attempts, no further attempt to send is started for that
\* message.
C15_WaitCancellable ==
    (shutdownAt.arrived /\ shutdownAt.waiting) =>
        /\ calls = shutdownAt.calls
        /\ rpc # "attempt"

(***************************************************************************)
(* The value start() returns.                                              *)
(***************************************************************************)
\* the value of `return { success: count, failed: failedCount, errors }`, with
\* its JavaScript type
StartReturn ==
    [t |-> "object", success |-> result.success, failed |-> result.failed,
     errors |-> result.errors]

\* expect(v).toBe(n) for a number n: Object.is(v, n)
ToBe(v, n) == v.t = "number" /\ v.n = n

\* every entry of the directory is a candidate named after a valid address
\* whose document is well-formed, the sender is valid and the transport accepts
C16_AllWellFormed ==
    /\ transport = "accepting"
    /\ documents = "wellFormed"
    /\ isValidEmail(fromEmail)
    /\ \A j \in 1..Len(files) : files[j] \in {FileGood1, FileGood2}

\* C16: when every entry of the data directory is a well-formed candidate
\* file and the transport accepts every message, the value start() returns is
\* the number of entries of the directory.
C16_ReturnsCount ==
    (spc = "done" /\ C16_AllWellFormed) => ToBe(StartReturn, Len(files))

(***************************************************************************)
(* A sort that names no key.                                               *)
(***************************************************************************)
\* the first count of the filtered posts, in the order they came in
FirstOf(config, rest) == SubSeq(rest, 1, Min(CountOrSix(config), Len(rest)))

\* a direct call of sortAndSlicePost has returned, for a count of the data
\* model and a sort that is neither a string nor a three-element array
C17_Case ==
    /\ shpc = "sliced"
    /\ ~sliced.threw
    /\ CountInDomain(mails[1].config)
    /\ ~SortSpecified(mails[1].config)

\* C17 as stated: when config.sort is absent, a number or an array of another
\* length than three, the key of every post is 0 and the result is the first
\* count of the filtered posts in their original order.
C17_KeyZero ==
    C17_Case =>
        sliced.posts =
            FirstOf(mails[1].config, Passing(mails[1].posts, mails[1].config))

\* the config with the sort the code puts in the place of an absent one
C17_ByPoints(config) == [config EXCEPT !.sort = SortName("points")]

\* C17: when config.sort is a number or an array of another length than
\* three, the key of every post is 0 and the result is the first count of the
\* filtered posts in their original order; when config.sort is absent the
\* posts are sorted by 'points', as for the string 'points'.
C17_KeyZeroUnlessAbsent ==
    C17_Case =>
        IF mails[1].config.sort.t = "absent"
        THEN C8_OrderOf(C17_ByPoints(mails[1].config),
                        Passing(mails[1].posts, mails[1].config),
                        sliced.posts)
        ELSE sliced.posts =
                 FirstOf(mails[1].config,
                         Passing(mails[1].posts, mails[1].config))

\* a number for a sort leaves points 1, 2, 5 as they came and keeps the first
\* two; no sort at all, descending, puts 5 first
C17_Witness ==
    /\ shpc = "sliced"
    /\ mails[1].posts = <<PostA, PostB, PostC>>
    /\ mails[1].config.count = CountOf(2)
    /\ mails[1].config.property = ""
    /\ ~mails[1].config.ascending
    /\ \/ /\ mails[1].config.sort = SortNumber
          /\ sliced.posts = <<PostA, PostB>>
       \/ /\ mails[1].config.sort = SortAbsent
          /\ sliced.posts = <<PostC, PostB>>

(***************************************************************************)
(* A sort descriptor with an operator outside the whitelist.               *)
(***************************************************************************)
\* config.sort is [a, op, b] with op not one of + - * /
C18_Disallowed(config) ==
    IsDerived(config.sort) /\ config.sort.arr[2] \notin AllowedOperators

\* the collection is shaped by a config with a disallowed operator: its own
\* when it has no sections, that of one of its sections otherwise
C18_Affected(c) ==
    IF HasStructure(c.config.structure)
    THEN \E j \in 1..Len(c.config.structure.entries) :
             C18_Disallowed(c.config.structure.entries[j].config)
    ELSE c.config.structure.t # "null" /\ C18_Disallowed(c.config)

\* C18: whenever config.sort is a three-element array whose operator is not
\* one of + - * /, sortAndSlicePost throws the invalid-operator error and
\* returns no posts, and transformPosts throws for a document with such a
\* collection or section, however many posts there are, none and one included.
C18_FailsClosed ==
    /\ (shpc = "sliced" /\ C18_Disallowed(mails[1].config)) =>
           /\ sliced.threw
           /\ sliced.error =
                  ErrInvalidOperator(mails[1].config.sort.arr[2])
           /\ sliced.posts = <<>>
    /\ (shpc = "shaped" /\ \E k \in 1..Len(mails) : C18_Affected(mails[k])) =>
           /\ shaped.threw
           /\ shaped.mails = <<>>

(***************************************************************************)
(* convertMailDataToArray.                                                 *)
(***************************************************************************)
\* most collections of a generated raw document
MaxCollections == 3

\* property keys: array indices ("0", "1", ...) and other strings
IndexKey(i) == [index |-> TRUE, n |-> i, str |-> ""]
NameKey(s) == [index |-> FALSE, n |-> 0, str |-> s]

\* property values: a collection, a string, undefined
Coll(id) == [t |-> "collection", id |-> id, str |-> ""]
Str(s) == [t |-> "string", id |-> "", str |-> s]
NoValue == [t |-> "undefined", id |-> "", str |-> ""]

\* a raw document is the sequence of its properties in the order yaml.load
\* created them
Property(k, v) == [key |-> k, value |-> v]

\* mail[key]
GetOwn(mail, k) ==
    IF \E i \in 1..Len(mail) : mail[i].key = k
    THEN mail[CHOOSE i \in 1..Len(mail) : mail[i].key = k].value
    ELSE NoValue

Least(S) == CHOOSE x \in S : \A y \in S : x <= y

\* the index keys of S in ascending order
RECURSIVE Ascending(_)
Ascending(S) ==
    IF S = {} THEN <<>>
    ELSE <<IndexKey(Least(S))>> \o Ascending(S \ {Least(S)})

IndexKeys(mail) ==
    Ascending({mail[i].key.n : i \in {j \in 1..Len(mail) : mail[j].key.index}})

\* the keys of mail in the order its properties were created
CreationOrder(mail) == [i \in 1..Len(mail) |-> mail[i].key]

\* for (let key in mail) taken to follow the order of creation
ForInCreationOrder(mail) == CreationOrder(mail)

\* for (let key in mail): the index keys in ascending order, then the other
\* keys in the order of creation
ForIn(mail) ==
    IndexKeys(mail) \o SelectSeq(CreationOrder(mail), LAMBDA k : ~k.index)

\* tempMail after the loop: tempMail.push(mail[key]) for every key
TempMail(mail, keys) == [i \in 1..Len(keys) |-> GetOwn(mail, keys[i])]

\* { mails: tempMail.slice(0, tempMail.length - 2), name }
Converted(tempMail, name) ==
    [mails |-> SliceTo(tempMail, Len(tempMail) - 2), name |-> name]

convertMailDataToArray(mail) ==
    Converted(TempMail(mail, ForIn(mail)), GetOwn(mail, NameKey("name")))

\* the orders in which n collections can be written
Orders(n) ==
    { o \in [1..n -> 0..(n - 1)] : \A i, j \in 1..n : i # j => o[i] # o[j] }

CollectionIds == {"a", "b"}
DocNames == {Str("Daily Digest"), Str("")}
DocCrons == {Str("0 8 * * *"), Str("@daily")}

\* the collections, keyed o[1], o[2], ... as they were written
Collections(o, ids) ==
    [i \in 1..Len(o) |-> Property(IndexKey(o[i]), Coll(ids[o[i]]))]

\* raw documents: the collections, then name and cron
JobDocuments ==
    { Collections(o, ids)
          \o <<Property(NameKey("name"), nm), Property(NameKey("cron"), cr)>> :
        o \in UNION { Orders(n) : n \in 0..MaxCollections },
        ids \in [0..(MaxCollections - 1) -> CollectionIds],
        nm \in DocNames, cr \in DocCrons }

\* documents of another shape: no cron, cron before name, a third field
OtherDocuments ==
    { Collections(o, [i \in 0..(MaxCollections - 1) |-> "a"]) \o tail :
        o \in UNION { Orders(n) : n \in 0..2 },
        tail \in {<<Property(NameKey("name"), Str("Daily Digest"))>>,
                  <<Property(NameKey("cron"), Str("@daily")),
                    Property(NameKey("name"), Str("Daily Digest"))>>,
                  <<Property(NameKey("name"), Str("Daily Digest")),
                    Property(NameKey("cron"), Str("@daily")),
                    Property(NameKey("title"), Str("x"))>>} }

ConvertInputs ==
    { [f |-> "convertMailDataToArray", mail |-> d] :
        d \in JobDocuments \cup OtherDocuments }

CallConvertMailDataToArray ==
    /\ cpc = "convert"
    /\ cpc' = "converted"
    /\ cRet' = convertMailDataToArray(cArgs.mail)
    /\ UNCHANGED cArgs
    /\ UNCHANGED <<configVars, startVars, retryVars, accepted, pathVars,
                   shapeVars>>

\* convertMailDataToArray is called
InitConvert ==
    /\ AllIdle
    /\ cpc = "convert"
    /\ cArgs \in ConvertInputs
    /\ cRet = NoCall

NextConvert == CallConvertMailDataToArray

SpecConvert == InitConvert /\ [][NextConvert]_vars

\* the document is n collections keyed 0..n-1, then name, then cron
C19_JobDocument(mail) ==
    /\ Len(mail) >= 2
    /\ mail[Len(mail) - 1].key = NameKey("name")
    /\ mail[Len(mail)].key = NameKey("cron")
    /\ \A i \in 1..(Len(mail) - 2) : mail[i].key.index
    /\ {mail[i].key.n : i \in 1..(Len(mail) - 2)} = 0..(Len(mail) - 3)

\* C19: for a raw document of n collections keyed 0..n-1 followed by name and
\* cron, convertMailDataToArray returns the document's name, and mails of
\* length n whose i-th element is the collection keyed i-1; so neither name
\* nor cron is among mails and no collection is missing.
C19_Collections ==
    (cpc = "converted" /\ C19_JobDocument(cArgs.mail)) =>
        /\ cRet.name = cArgs.mail[Len(cArgs.mail) - 1].value
        /\ Len(cRet.mails) = Len(cArgs.mail) - 2
        /\ \A i \in 1..Len(cRet.mails) :
               \E j \in 1..(Len(cArgs.mail) - 2) :
                   /\ cArgs.mail[j].key = IndexKey(i - 1)
                   /\ cRet.mails[i] = cArgs.mail[j].value
        /\ \A i \in 1..Len(cRet.mails) : cRet.mails[i].t = "collection"

\* a document written with collection 1 before collection 0, converted
C19_Witness ==
    /\ cpc = "converted"
    /\ C19_JobDocument(cArgs.mail)
    /\ Len(cArgs.mail) = 4
    /\ cArgs.mail[1] = Property(IndexKey(1), Coll("b"))
    /\ cArgs.mail[2] = Property(IndexKey(0), Coll("a"))
    /\ cRet.mails = <<Coll("a"), Coll("b")>>
    /\ cRet.name = Str("Daily Digest")

(***************************************************************************)
(* The counters of the result of start().                                  *)
(***************************************************************************)
\* the entries of the listing that match the filename pattern
C20_Matching == {j \in 1..Len(files) : MatchesNamePattern(files[j])}

\* those of them isSafePath refuses
C20_Refused == {j \in C20_Matching : ~isSafePath(dataDir, files[j])}

\* C20 as stated: in the result of start() the number of strings in errors is
\* failed, and success + failed is the number of entries that match the
\* filename pattern.
C20_ErrorsAreFailures ==
    spc = "done" =>
        /\ Len(result.errors) = result.failed
        /\ result.success + result.failed = Cardinality(C20_Matching)

\* C20: in the result of start() the number of strings in errors is failed
\* plus the number of matching entries isSafePath refused, and success +
\* failed is the number of matching entries isSafePath let through; every
\* matching entry is counted once, as a success, a failure or a refusal.
C20_Counters ==
    spc = "done" =>
        /\ Len(result.errors) = result.failed + Cardinality(C20_Refused)
        /\ result.success + result.failed =
               Cardinality(C20_Matching) - Cardinality(C20_Refused)
        /\ result.success = Len(accepted)

\* a listing with a refused entry, a failure and a success, returned
C20_Witness ==
    /\ spc = "done"
    /\ Cardinality(C20_Refused) = 1
    /\ result.failed = 1
    /\ result.success = 1
    /\ Len(result.errors) = 2

(***************************************************************************)
(* The ways sendMailWithRetry ends.                                        *)
(***************************************************************************)
\* the error is 'Failed to send email after ... attempts: ' and the message
\* of last
C21_DeliveryFailed(error, last) ==
    /\ error # NoError
    /\ error[1] = "Failed to send email after "
    /\ last # Undefined => error = ErrFailedAfter(maxRetries, last)

\* C21: for every maxRetries, 0 and negative numbers included,
\* sendMailWithRetry ends either by returning after an accepted attempt or by
\* throwing 'Failed to send email after N attempts' with the last underlying
\* error; with maxRetries <= 0 it makes no attempt and ends with that error.
C21_TwoEndings ==
    /\ rpc = "returned" =>
           /\ sendLog # <<>>
           /\ sendLog[Len(sendLog)] = "ok"
    /\ rpc = "threw" => C21_DeliveryFailed(thrown, lastError)
    /\ (rpc # "idle" /\ maxRetries <= 0) =>
           /\ calls = 0
           /\ sendLog = <<>>
           /\ rpc = "threw"

(***************************************************************************)
(* At most one accepted message per candidate.                             *)
(***************************************************************************)
\* an accepted attempt is the last attempt of its call
C22_AcceptedIsLast ==
    /\ \A k \in 1..Len(sendLog) : sendLog[k] = "ok" => k = Len(sendLog)
    /\ (sendLog # <<>> /\ sendLog[Len(sendLog)] = "ok") => rpc = "returned"

\* a step that has the transport accept a message is an attempt of the call
\* for the entry start() is at, and ends that call
C22_AcceptStep ==
    accepted' # accepted =>
        /\ rpc = "attempt"
        /\ rpc' = "returned"
        /\ spc = "sending"
        /\ accepted' = Append(accepted, idx)

\* no entry has two accepted messages, and every accepted message is that of
\* a candidate start() composed
C22_OncePerCandidate ==
    /\ \A i, j \in 1..Len(accepted) : i # j => accepted[i] # accepted[j]
    /\ \A i \in 1..Len(accepted) :
           /\ accepted[i] \in composed
           /\ IsCandidate(files[accepted[i]])

\* C22: within one run of start(), sendMailWithRetry makes no attempt after
\* an accepted one, every candidate file has at most one message accepted by
\* the transport, and at the end success is the number of accepted messages.
C22_AtMostOnce ==
    /\ [][C22_AcceptStep]_vars
    /\ [](C22_AcceptedIsLast /\ C22_OncePerCandidate)
    /\ [](spc = "done" => result.success = Len(accepted))

\* the second of two candidates is accepted at its second attempt, the first
\* having been accepted before; sendMailWithRetry has returned
C22_Witness ==
    /\ spc = "sending"
    /\ rpc = "returned"
    /\ idx = 2
    /\ count = 1
    /\ Len(sendLog) = 2
    /\ sendLog[1] # "ok"
    /\ sendLog[2] = "ok"
    /\ accepted = <<1, 2>>

====
